---- MODULE Spec2Model ----
(***************************************************************************)
(* Hive: the ClusterDeployment lifecycle reconciler                        *)
(* (pkg/controller/clusterdeployment, src/unnamed/part_000) and the        *)
(* SyncSet reconciler (src/pkg/controller/syncset/syncset_controller.go),  *)
(* as state machines over the objects they read and write in the           *)
(* orchestration platform and on the managed cluster.                      *)
(*                                                                         *)
(* One reconcile pass is one action: the handler runs from its first read  *)
(* to its return.  A platform or Applier call that fails in the pass is an *)
(* input of the action (the set `failing`).                                *)
(***************************************************************************)
EXTENDS Integers, Sequences, FiniteSets, TLC

VARIABLES
    cds,               \* ClusterDeployment objects, by key
    jobs,              \* batch Jobs, by key
    cfgMaps,           \* ConfigMaps, by key
    syncSets,          \* SyncSet objects, by key
    selectorSyncSets,  \* SelectorSyncSet objects, by name
    cluster,           \* per CD: the objects present on its managed cluster
    now,               \* the clock, in hours
    pass               \* the last reconcile pass: what it read, called and returned

vars == <<cds, jobs, cfgMaps, syncSets, selectorSyncSets, cluster, now, pass>>

-----------------------------------------------------------------------------
(* Objects and names                                                       *)

\* An object that is not in the platform.
NoObj == [exists |-> FALSE]

\* The nil error, and an error value.
NoErr == [kind |-> "nil"]
Err(kind, detail) == [kind |-> kind, detail |-> detail]

FinalizerDeprovision == "hive.openshift.io/deprovision"
FinalizerSyncSetCleanup == "hive.openshift.io/syncset-cleanup"
\* A finalizer owned by some other controller.
FinalizerOther == "example.com/other"

\* The keys (namespace, name) of the ClusterDeployments of the model.
CDKeys == {[namespace |-> "acme", name |-> "c1"]}

\* fmt.Sprintf("%s-install", cd.Name) and fmt.Sprintf("%s-uninstall", cd.Name)
InstallJobName(cdName) == <<cdName, "-install">>
UninstallJobName(cdName) == <<cdName, "-uninstall">>

ObjKey(namespace, name) == [namespace |-> namespace, name |-> name]

JobKeys ==
    {ObjKey(k.namespace, InstallJobName(k.name)) : k \in CDKeys}
        \cup {ObjKey(k.namespace, UninstallJobName(k.name)) : k \in CDKeys}

CfgMapKeys == {ObjKey(k.namespace, InstallJobName(k.name)) : k \in CDKeys}

\* Job condition lists the job controller may report (Status.Conditions).
JobCondition(type, status) == [type |-> type, status |-> status]
JobConditionLists ==
    { <<>>,
      <<JobCondition("Complete", "True")>>,
      <<JobCondition("Complete", "False")>>,
      <<JobCondition("Complete", "Unknown")>>,
      <<JobCondition("Failed", "False"), JobCondition("Complete", "True")>> }

-----------------------------------------------------------------------------
(* Finalizer helpers (part_000:405-427)                                    *)

\* Every object counts as carrying every finalizer.
HasFinalizerAlways(object, finalizer) == TRUE

HasFinalizer(object, finalizer) == finalizer \in object.finalizers

AddFinalizer(object, finalizer) ==
    [object EXCEPT !.finalizers = @ \cup {finalizer}]

DeleteFinalizer(object, finalizer) ==
    [object EXCEPT !.finalizers = @ \ {finalizer}]

-----------------------------------------------------------------------------
(* Job status helpers (part_000:386-399)                                   *)

RECURSIVE getJobConditionStatusFrom(_, _, _)
getJobConditionStatusFrom(conditions, i, conditionType) ==
    IF i > Len(conditions) THEN "False"
    ELSE IF conditions[i].type = conditionType THEN conditions[i].status
    ELSE getJobConditionStatusFrom(conditions, i + 1, conditionType)

getJobConditionStatus(job, conditionType) ==
    getJobConditionStatusFrom(job.conditions, 1, conditionType)

isSuccessfulAnyCondition(job) ==
    getJobConditionStatus(job, "Complete") # "False"

isSuccessfulOnFailed(job) == getJobConditionStatus(job, "Failed") = "True"

isSuccessful(job) == getJobConditionStatus(job, "Complete") = "True"

-----------------------------------------------------------------------------
(* The platform client, as the lifecycle reconciler uses it.  A world `w`  *)
(* is the platform state a pass works on.                                  *)

\* The zero value of kbatch.Job that Get leaves untouched on NotFound.
EmptyJob == [exists |-> FALSE, conditions |-> <<>>]

NewJob(owner, uninstall) ==
    [exists |-> TRUE, conditions |-> <<>>, owner |-> owner, uninstall |-> uninstall]

NewCfgMap(owner) == [exists |-> TRUE, owner |-> owner]

\* client.Update of a ClusterDeployment: the stored object is replaced; an
\* object with a deletion timestamp and no finalizer left is removed.
ClientUpdateCD(w, k, cd) ==
    [w EXCEPT !.cds[k] =
        IF cd.deletionTimestamp /\ cd.finalizers = {} THEN NoObj ELSE cd]

ClientCreateJob(w, key, job) == [w EXCEPT !.jobs[key] = job]

ClientCreateCfgMap(w, key, cfgMap) == [w EXCEPT !.cfgMaps[key] = cfgMap]

\* What a pass returns to the action: the world it leaves, the writes and
\* external calls it issued, in order, and the error it returns.
Result(w, calls, err) == [w |-> w, calls |-> calls, err |-> err]

Call(op, kind, target) == [op |-> op, kind |-> kind, target |-> target]

-----------------------------------------------------------------------------
(* Lifecycle reconciler (part_000:105-256)                                 *)

addClusterDeploymentFinalizer(w, k, cd, failing) ==
    LET cd2 == AddFinalizer(cd, FinalizerDeprovision)
        call == Call("Update", "ClusterDeployment", "addFinalizer")
    IN  IF "UpdateCD" \in failing
        THEN Result(w, <<call>>, Err("UpdateCD", k))
        ELSE Result(ClientUpdateCD(w, k, cd2), <<call>>, NoErr)

\* The update is sent with the finalizer still in the list.
removeClusterDeploymentFinalizerKept(w, k, cd, calls, failing) ==
    LET call == Call("Update", "ClusterDeployment", "removeFinalizer")
    IN  IF "UpdateCD" \in failing
        THEN Result(w, Append(calls, call), Err("UpdateCD", k))
        ELSE Result(ClientUpdateCD(w, k, cd), Append(calls, call), NoErr)

removeClusterDeploymentFinalizer(w, k, cd, calls, failing) ==
    LET cd2 == DeleteFinalizer(cd, FinalizerDeprovision)
        call == Call("Update", "ClusterDeployment", "removeFinalizer")
    IN  IF "UpdateCD" \in failing
        THEN Result(w, Append(calls, call), Err("UpdateCD", k))
        ELSE Result(ClientUpdateCD(w, k, cd2), Append(calls, call), NoErr)

syncDeletedClusterDeployment(w, k, cd, failing) ==
    LET jk == ObjKey(k.namespace, UninstallJobName(k.name))
        uninstallJob == NewJob(k, TRUE)
    IN  IF "GetJob" \in failing
        THEN Result(w, <<>>, Err("GetJob", jk))
        ELSE
          LET found == w.jobs[jk].exists
              \* Get fills existingJob only when the job is found
              existingJob == IF found THEN w.jobs[jk] ELSE EmptyJob
              create == Call("Create", "Job", jk)
          IN  IF ~found /\ "CreateJob" \in failing
              THEN Result(w, <<create>>, Err("CreateJob", jk))
              ELSE
                LET w2 == IF found THEN w ELSE ClientCreateJob(w, jk, uninstallJob)
                    calls == IF found THEN <<>> ELSE <<create>>
                IN  IF isSuccessful(existingJob)
                    THEN removeClusterDeploymentFinalizer(w2, k, cd, calls, failing)
                    ELSE Result(w2, calls, NoErr)

\* The install branch (part_000:153-204), for a CD without deletion
\* timestamp that carries the finalizer.
ensureInstall(w, k, cd, failing) ==
    LET ck == ObjKey(k.namespace, InstallJobName(k.name))
        jk == ObjKey(k.namespace, InstallJobName(k.name))
        cfgFound == w.cfgMaps[ck].exists
        createCfg == Call("Create", "ConfigMap", ck)
        createJob == Call("Create", "Job", jk)
        updateCD == Call("Update", "ClusterDeployment", "status")
    IN  IF "GetCfgMap" \in failing
        THEN Result(w, <<>>, Err("GetCfgMap", ck))
        ELSE IF ~cfgFound /\ "CreateCfgMap" \in failing
        THEN Result(w, <<createCfg>>, Err("CreateCfgMap", ck))
        ELSE
          LET w1 == IF cfgFound THEN w ELSE ClientCreateCfgMap(w, ck, NewCfgMap(k))
              calls1 == IF cfgFound THEN <<>> ELSE <<createCfg>>
              jobFound == w1.jobs[jk].exists
          IN  IF "GetJob" \in failing
              THEN Result(w1, calls1, Err("GetJob", jk))
              ELSE IF ~jobFound /\ "CreateJob" \in failing
              THEN Result(w1, Append(calls1, createJob), Err("CreateJob", jk))
              ELSE
                LET w2 == IF jobFound THEN w1
                          ELSE ClientCreateJob(w1, jk, NewJob(k, FALSE))
                    calls2 == IF jobFound THEN calls1 ELSE Append(calls1, createJob)
                    cd2 == IF jobFound
                           THEN [cd EXCEPT !.installed = isSuccessful(w1.jobs[jk])]
                           ELSE cd
                IN  \* reflect.DeepEqual(cd.Status, origCD.Status)
                    IF cd2.installed # cd.installed
                       \/ cd2.syncSetStatus # cd.syncSetStatus
                       \/ cd2.selectorSyncSetStatus # cd.selectorSyncSetStatus
                    THEN IF "UpdateCD" \in failing
                         THEN Result(w2, Append(calls2, updateCD), Err("UpdateCD", k))
                         ELSE Result(ClientUpdateCD(w2, k, cd2),
                                     Append(calls2, updateCD), NoErr)
                    ELSE Result(w2, calls2, NoErr)

\* A pass on a deleting CD falls through to the install branch.
ReconcileClusterDeploymentNoDeletionCheck(w, k, failing) ==
    IF "GetCD" \in failing THEN Result(w, <<>>, Err("GetCD", k))
    ELSE IF ~w.cds[k].exists THEN Result(w, <<>>, NoErr)
    ELSE
      LET cd == w.cds[k]
      IN  IF ~HasFinalizer(cd, FinalizerDeprovision)
          THEN addClusterDeploymentFinalizer(w, k, cd, failing)
          ELSE ensureInstall(w, k, cd, failing)

\* After adding the finalizer the pass goes on to the install branch.
ReconcileClusterDeploymentAddsAndInstalls(w, k, failing) ==
    IF "GetCD" \in failing THEN Result(w, <<>>, Err("GetCD", k))
    ELSE IF ~w.cds[k].exists THEN Result(w, <<>>, NoErr)
    ELSE
      LET cd == w.cds[k]
          goOn(r) == IF r.err # NoErr THEN r
                     ELSE ensureInstall(r.w, k, r.w.cds[k], failing)
      IN  IF cd.deletionTimestamp
          THEN IF ~HasFinalizer(cd, FinalizerDeprovision)
               THEN Result(w, <<>>, NoErr)
               ELSE syncDeletedClusterDeployment(w, k, cd, failing)
          ELSE IF ~HasFinalizer(cd, FinalizerDeprovision)
          THEN goOn(addClusterDeploymentFinalizer(w, k, cd, failing))
          ELSE ensureInstall(w, k, cd, failing)

ReconcileClusterDeployment(w, k, failing) ==
    IF "GetCD" \in failing THEN Result(w, <<>>, Err("GetCD", k))
    ELSE IF ~w.cds[k].exists THEN Result(w, <<>>, NoErr)
    ELSE
      LET cd == w.cds[k]
      IN  IF cd.deletionTimestamp
          THEN IF ~HasFinalizer(cd, FinalizerDeprovision)
               THEN Result(w, <<>>, NoErr)
               ELSE syncDeletedClusterDeployment(w, k, cd, failing)
          ELSE IF ~HasFinalizer(cd, FinalizerDeprovision)
          THEN addClusterDeploymentFinalizer(w, k, cd, failing)
          ELSE ensureInstall(w, k, cd, failing)

-----------------------------------------------------------------------------
(* Sync engine: data                                                       *)

reapplyInterval == 2

\* What Applier.Info reports for a resource blob.
Info(apiVersion, kind, resource, namespace, name) ==
    [apiVersion |-> apiVersion, kind |-> kind, resource |-> resource,
     namespace |-> namespace, name |-> name]

InfoA == Info("v1", "ConfigMap", "configmaps", "default", "a")
InfoB == Info("v1", "ConfigMap", "configmaps", "default", "b")

\* A resource blob (RawExtension.Raw): the object it describes and the rest
\* of its bytes.
Raw(info, body) == [info |-> info, body |-> body]

\* fmt.Sprintf("%x", md5.Sum(data)): distinct blobs have distinct hashes.
resourceHash(data) == <<"md5", data>>

\* The object an identity names on the managed cluster (group/version,
\* resource, namespace, name), as the dynamic client addresses it.
ClusterKey(apiVersion, resource, namespace, name) ==
    [apiVersion |-> apiVersion, resource |-> resource,
     namespace |-> namespace, name |-> name]

\* A call of the pass that the environment makes fail.
Fail(op, target) == [op |-> op, target |-> target]

\* schema.ParseGroupVersion rejects a string with more than one "/".
MalformedAPIVersions == {"a/b/c"}
ParseGroupVersionFails(apiVersion) == apiVersion \in MalformedAPIVersions

\* LastTransitionTime is written with the condition and read by neither
\* reconciler; it changes only when Status changes, so it never makes two
\* statuses differ that are equal in Status: the model leaves it out.
SyncCondition(type, status, reason, message, t) ==
    [type |-> type, status |-> status, reason |-> reason, message |-> message,
     lastProbeTime |-> t]

\* The entry of a resource records a hash of what Info reports, not of the
\* bytes of the blob.
SyncStatusHashOfInfo(info, hash, conditions) ==
    [apiVersion |-> info.apiVersion, kind |-> info.kind, resource |-> info.resource,
     name |-> info.name, namespace |-> info.namespace,
     hash |-> resourceHash(Raw(info, 0)), conditions |-> conditions]

SyncStatus(info, hash, conditions) ==
    [apiVersion |-> info.apiVersion, kind |-> info.kind, resource |-> info.resource,
     name |-> info.name, namespace |-> info.namespace,
     hash |-> hash, conditions |-> conditions]

SyncSetObjectStatus(name) ==
    [name |-> name, resources |-> <<>>, patches |-> <<>>, conditions |-> <<>>]

-----------------------------------------------------------------------------
(* Condition utilities (controllerutils.FindSyncCondition, SetSyncCondition)*)

RECURSIVE FindSyncConditionFrom(_, _, _)
FindSyncConditionFrom(conditions, i, conditionType) ==
    IF i > Len(conditions) THEN 0
    ELSE IF conditions[i].type = conditionType THEN i
    ELSE FindSyncConditionFrom(conditions, i + 1, conditionType)

\* The index of the first condition of the type, 0 when there is none.
FindSyncCondition(conditions, conditionType) ==
    FindSyncConditionFrom(conditions, 1, conditionType)

\* UpdateConditionNever, UpdateConditionAlways, UpdateConditionIfReasonOrMessageChange
UpdateConditionCheck(check, oldReason, oldMessage, newReason, newMessage) ==
    CASE check = "Never" -> FALSE
      [] check = "Always" -> TRUE
      [] OTHER -> oldReason # newReason \/ oldMessage # newMessage

shouldUpdateCondition(old, status, reason, message, check) ==
    IF old.status # status THEN TRUE
    ELSE UpdateConditionCheck(check, old.reason, old.message, reason, message)

SetSyncCondition(conditions, conditionType, status, reason, message, check, t) ==
    LET i == FindSyncCondition(conditions, conditionType)
    IN  IF i = 0
        THEN IF status = "True"
             THEN Append(conditions,
                         SyncCondition(conditionType, status, reason, message, t))
             ELSE conditions
        ELSE IF shouldUpdateCondition(conditions[i], status, reason, message, check)
        THEN [conditions EXCEPT ![i] =
                SyncCondition(conditionType, status, reason, message, t)]
        ELSE conditions

-----------------------------------------------------------------------------
(* Per-resource and per-bundle conditions (syncset_controller.go:708-786)  *)

\* The condition is reported as False whatever the probes returned.
setUnknownObjectSyncConditionFalse(syncSetConditions, err, index, t) ==
    SetSyncCondition(syncSetConditions, "UnknownObject", "False",
                     "UnknownObjectNotFound",
                     "Info available for all SyncSet resources", "Never", t)

setUnknownObjectSyncCondition(syncSetConditions, err, index, t) ==
    IF err = NoErr
    THEN SetSyncCondition(syncSetConditions, "UnknownObject", "False",
                          "UnknownObjectNotFound",
                          "Info available for all SyncSet resources", "Never", t)
    ELSE SetSyncCondition(syncSetConditions, "UnknownObject", "True",
                          "UnknownObjectFound",
                          <<"Unable to gather Info for SyncSet resource at index",
                            index, err.kind>>, "Never", t)

\* A successful apply leaves ApplyFailure as it was.
setApplySyncConditionsKeepFailure(resourceSyncConditions, err, t) ==
    IF err = NoErr
    THEN SetSyncCondition(
            SetSyncCondition(resourceSyncConditions, "ApplySuccess", "True",
                             "ApplySucceeded", "Apply successful", "Always", t),
            "DeletionFailed", "False", "ApplySucceeded", "Apply successful",
            "Always", t)
    ELSE SetSyncCondition(
            SetSyncCondition(resourceSyncConditions, "ApplySuccess", "False",
                             "ApplyFailed", "Apply failed",
                             "IfReasonOrMessageChange", t),
            "ApplyFailure", "True", "ApplyFailed", "Apply failed",
            "IfReasonOrMessageChange", t)

\* A failed apply leaves ApplySuccess as it was.
setApplySyncConditionsKeepSuccess(resourceSyncConditions, err, t) ==
    IF err = NoErr
    THEN SetSyncCondition(
            SetSyncCondition(resourceSyncConditions, "ApplySuccess", "True",
                             "ApplySucceeded", "Apply successful", "Always", t),
            "ApplyFailure", "False", "ApplySucceeded", "Apply successful", "Always", t)
    ELSE SetSyncCondition(resourceSyncConditions, "ApplyFailure", "True",
                          "ApplyFailed", "Apply failed", "IfReasonOrMessageChange", t)

\* A failed apply refreshes the conditions whatever they were.
setApplySyncConditionsAlways(resourceSyncConditions, err, t) ==
    LET ok == err = NoErr
        reason == IF ok THEN "ApplySucceeded" ELSE "ApplyFailed"
        message == IF ok THEN "Apply successful" ELSE "Apply failed"
        successStatus == IF ok THEN "True" ELSE "False"
        failureStatus == IF ok THEN "False" ELSE "True"
        c1 == SetSyncCondition(resourceSyncConditions, "ApplySuccess",
                               successStatus, reason, message, "Always", t)
        c2 == SetSyncCondition(c1, "ApplyFailure",
                               failureStatus, reason, message, "Always", t)
    IN  SetSyncCondition(c2, "DeletionFailed",
                         "False", reason, message, "Always", t)

setApplySyncConditions(resourceSyncConditions, err, t) ==
    LET ok == err = NoErr
        reason == IF ok THEN "ApplySucceeded" ELSE "ApplyFailed"
        message == IF ok THEN "Apply successful" ELSE "Apply failed"
        successStatus == IF ok THEN "True" ELSE "False"
        failureStatus == IF ok THEN "False" ELSE "True"
        updateCondition == IF ok THEN "Always" ELSE "IfReasonOrMessageChange"
        c1 == SetSyncCondition(resourceSyncConditions, "ApplySuccess",
                               successStatus, reason, message, updateCondition, t)
        c2 == SetSyncCondition(c1, "ApplyFailure",
                               failureStatus, reason, message, updateCondition, t)
    IN  SetSyncCondition(c2, "DeletionFailed",
                         "False", reason, message, updateCondition, t)

\* The conditions slice of the prior status entry after setApplySyncConditions
\* ran on it: SetSyncCondition updates an existing condition in place, in the
\* array the prior entry shares, until its first append moves to a new array
\* (a deep-copied slice has no spare capacity).
applyConditionsLeftInPlace(resourceSyncConditions, err, t) ==
    LET ok == err = NoErr
        reason == IF ok THEN "ApplySucceeded" ELSE "ApplyFailed"
        message == IF ok THEN "Apply successful" ELSE "Apply failed"
        updateCondition == IF ok THEN "Always" ELSE "IfReasonOrMessageChange"
        c0 == resourceSyncConditions
        c1 == SetSyncCondition(c0, "ApplySuccess", IF ok THEN "True" ELSE "False",
                               reason, message, updateCondition, t)
        c2 == SetSyncCondition(c1, "ApplyFailure", IF ok THEN "False" ELSE "True",
                               reason, message, updateCondition, t)
        c3 == SetSyncCondition(c2, "DeletionFailed", "False",
                               reason, message, updateCondition, t)
    IN  IF Len(c1) # Len(c0) THEN c0
        ELSE IF Len(c2) # Len(c1) THEN c1
        ELSE IF Len(c3) # Len(c2) THEN c2
        ELSE c3

setDeletionFailedSyncCondition(resourceSyncConditions, err, t) ==
    IF err = NoErr THEN resourceSyncConditions
    ELSE SetSyncCondition(resourceSyncConditions, "DeletionFailed", "True",
                          "DeletionFailed",
                          <<"Failed to delete resource:", err.kind>>, "Always", t)

-----------------------------------------------------------------------------
(* Status list helpers (syncset_controller.go:656-693)                     *)

\* The first of the indices at which a loop over a list finds its match, 0
\* when it finds none.
IndexWhere(indices) ==
    IF indices = {} THEN 0 ELSE CHOOSE i \in indices : \A j \in indices : i <= j

\* Resources are matched by name, namespace, apiVersion and kind.
SameResource(a, b) ==
    /\ a.name = b.name
    /\ a.namespace = b.namespace
    /\ a.apiVersion = b.apiVersion
    /\ a.kind = b.kind

\* Patches are matched by name, namespace and kind.
SamePatch(a, b) ==
    /\ a.name = b.name
    /\ a.namespace = b.namespace
    /\ a.kind = b.kind

appendOrUpdateSyncStatus(statusList, syncStatus) ==
    LET Match(ss) == SamePatch(ss, syncStatus)
        i == IndexWhere({ix \in DOMAIN statusList : Match(statusList[ix])})
    IN  IF i # 0 THEN [statusList EXCEPT ![i] = syncStatus]
        ELSE Append(statusList, syncStatus)

\* The outcome of a bundle is always added to the list.
appendSyncSetObjectStatus(statusList, syncSetObjectStatus) ==
    Append(statusList, syncSetObjectStatus)

appendOrUpdateSyncSetObjectStatus(statusList, syncSetObjectStatus) ==
    LET Match(ssos) == ssos.name = syncSetObjectStatus.name
        i == IndexWhere({ix \in DOMAIN statusList : Match(statusList[ix])})
    IN  IF i # 0 THEN [statusList EXCEPT ![i] = syncSetObjectStatus]
        ELSE Append(statusList, syncSetObjectStatus)

findSyncSetStatus(name, statusList) ==
    LET Match(ssos) == ssos.name = name
        i == IndexWhere({ix \in DOMAIN statusList : Match(statusList[ix])})
    IN  IF i # 0 THEN statusList[i] ELSE SyncSetObjectStatus(name)

removeSyncSetObjectStatus(statusList, syncSetName) ==
    LET Keep(ssos) == ssos.name # syncSetName
    IN  SelectSeq(statusList, Keep)

-----------------------------------------------------------------------------
(* Resource apply (syncset_controller.go:393-500)                          *)

\* A call on the managed cluster or the Applier, and whether it succeeded.
SyncCall(op, target) == [op |-> op, target |-> target, ok |-> TRUE]

Failed(call) == [call EXCEPT !.ok = FALSE]

\* The Info probes of lines 396-404: the index of the first resource whose
\* probe fails, 0 when every probe succeeds.
InfoFails(raw, failing) == Fail("Info", raw.info.name) \in failing

firstInfoFailure(ssResources, failing) ==
    LET Bad(raw) == InfoFails(raw, failing)
    IN  IndexWhere({ix \in DOMAIN ssResources : Bad(ssResources[ix])})

\* A resource is applied again as soon as the interval has passed.
reapplyDueInclusive(lastProbeTime, t) == t - lastProbeTime >= reapplyInterval

\* since > reapplyInterval, with since = time.Since(LastProbeTime)
\* The probe time of the last successful apply is never looked at.
reapplyNeverDue(lastProbeTime, t) == FALSE

reapplyDue(lastProbeTime, t) == t - lastProbeTime > reapplyInterval

\* Lines 423-458: whether the resource is applied in this pass, given the
\* prior status list.  j is the index of the first prior entry it matches.
resourceDecision(existing, resourceSyncStatus, t) ==
    LET Match(rss) == SameResource(rss, resourceSyncStatus)
        j == IndexWhere({ix \in DOMAIN existing : Match(existing[ix])})
        found == j # 0
        conds == IF found THEN existing[j].conditions ELSE <<>>
        different == found /\ existing[j].hash # resourceSyncStatus.hash
        fi == FindSyncCondition(conds, "ApplyFailure")
        failedLastTime == found /\ ~different /\ fi # 0 /\ conds[fi].status = "True"
        si == FindSyncCondition(conds, "ApplySuccess")
        stale == /\ found /\ ~different /\ ~failedLastTime
                 /\ si # 0 /\ reapplyDue(conds[si].lastProbeTime, t)
    IN  [j |-> j, conditions |-> conds,
         apply |-> ~found \/ different \/ failedLastTime \/ stale]

\* One iteration of the loop of lines 410-481.  acc holds the prior status
\* list (whose conditions SetSyncCondition updates in place), the new status
\* list, the managed cluster, the calls made and the apply error.
applyResource(acc, raw, failing, t) ==
    LET info == raw.info
        resourceSyncStatus == SyncStatus(info, resourceHash(raw), <<>>)
        d == resourceDecision(acc.existing, resourceSyncStatus, t)
        applyErr == IF Fail("Apply", info.name) \in failing
                    THEN Err("ApplyError", info.name) ELSE NoErr
        newConds == setApplySyncConditions(d.conditions, applyErr, t)
    IN  IF d.apply
        THEN [existing |->
                IF d.j = 0 THEN acc.existing
                ELSE [acc.existing EXCEPT ![d.j].conditions =
                        applyConditionsLeftInPlace(d.conditions, applyErr, t)],
              newList |-> Append(acc.newList,
                                 [resourceSyncStatus EXCEPT !.conditions = newConds]),
              cluster |->
                IF applyErr = NoErr
                THEN acc.cluster \cup {ClusterKey(info.apiVersion, info.resource,
                                                  info.namespace, info.name)}
                ELSE acc.cluster,
              calls |-> Append(acc.calls,
                           IF applyErr = NoErr THEN SyncCall("Apply", raw)
                           ELSE Failed(SyncCall("Apply", raw))),
              applyErr |-> applyErr]
        ELSE [acc EXCEPT !.newList =
                Append(@, [resourceSyncStatus EXCEPT !.conditions = d.conditions])]

RECURSIVE applyResourcesFrom(_, _, _, _, _)
\* The resources are applied from the last one to the first.
applyResourcesFromLast(ssResources, i, acc, failing, t) ==
    IF i > Len(ssResources) THEN acc
    ELSE (LET rest(a) == IF a.applyErr # NoErr THEN a
                         ELSE applyResource(a, ssResources[i], failing, t)
          IN  rest(applyResourcesFrom(ssResources, i + 1, acc, failing, t)))

\* The loop goes on after a failed Apply.
applyResourcesFromAll(ssResources, i, acc, failing, t) ==
    IF i > Len(ssResources) THEN acc
    ELSE applyResourcesFrom(ssResources, i + 1,
                            applyResource(acc, ssResources[i], failing, t),
                            failing, t)

applyResourcesFrom(ssResources, i, acc, failing, t) ==
    IF i > Len(ssResources) \/ acc.applyErr # NoErr THEN acc
    ELSE applyResourcesFrom(ssResources, i + 1,
                            applyResource(acc, ssResources[i], failing, t),
                            failing, t)

-----------------------------------------------------------------------------
(* Deletion pass (syncset_controller.go:571-628)                           *)

\* The prior status entries that match no entry of the new list, in order.
deletedStatusIndices(existingStatusList, newStatusList) ==
    LET Gone(i) == \A n \in 1..Len(newStatusList) :
                        ~SameResource(existingStatusList[i], newStatusList[n])
        idx[i \in 0..Len(existingStatusList)] ==
            IF i = 0 THEN <<>>
            ELSE IF Gone(i) THEN Append(idx[i - 1], i) ELSE idx[i - 1]
    IN  idx[Len(existingStatusList)]

\* The delete loop of lines 605-625.  acc holds the prior status list, the
\* managed cluster, the calls made and the error that ends the loop.
deleteCandidate(acc, index, failing, t) ==
    LET deletedStatus == acc.existing[index]
        key == ClusterKey(deletedStatus.apiVersion, deletedStatus.resource,
                          deletedStatus.namespace, deletedStatus.name)
        call == SyncCall("Delete", key)
    IN  IF ParseGroupVersionFails(deletedStatus.apiVersion)
        THEN [acc EXCEPT !.err = Err("ParseGroupVersion", deletedStatus.name)]
        ELSE IF Fail("Delete", deletedStatus.name) \in failing
        THEN [acc EXCEPT
                !.calls = Append(@, Failed(call)),
                !.existing[index].conditions =
                    setDeletionFailedSyncCondition(
                        @, Err("DeleteError", deletedStatus.name), t)]
        ELSE \* deleted, or NotFound: nothing to do
             [acc EXCEPT !.calls = Append(@, call), !.cluster = @ \ {key}]

RECURSIVE deleteCandidatesFrom(_, _, _, _, _)
deleteCandidatesFrom(indices, i, acc, failing, t) ==
    IF i > Len(indices) \/ acc.err # NoErr THEN acc
    ELSE deleteCandidatesFrom(indices, i + 1,
                              deleteCandidate(acc, indices[i], failing, t),
                              failing, t)

\* The deletion candidates are dropped from the status on an apply error.
dropDeletedStatus(newStatusList, deletedStatusList) == newStatusList

\* Line 602: append(newStatusList, deletedStatusList...)
preserveDeletedStatus(newStatusList, deletedStatusList) ==
    newStatusList \o deletedStatusList

\* An empty ResourceApplyMode is not taken for upsert.
isUpsertExplicitOnly(applyMode) == applyMode = "upsert"

\* applyMode == "" || applyMode == hivev1.UpsertResourceApplyMode
isUpsert(applyMode) == applyMode = "" \/ applyMode = "upsert"

\* Returns the bundle's new Resources list, the error, the managed cluster
\* and the deletes issued.
reconcileDeletedSyncSetResources(applyMode, existingStatusList, newStatusList, err, objects, failing, t) ==
    IF isUpsert(applyMode)
    THEN [resources |-> newStatusList, err |-> NoErr,
          cluster |-> objects, calls |-> <<>>]
    ELSE
      LET indices == deletedStatusIndices(existingStatusList, newStatusList)
          deletedStatusList == [n \in 1..Len(indices) |-> existingStatusList[indices[n]]]
      IN  IF err # NoErr
          THEN [resources |-> preserveDeletedStatus(newStatusList, deletedStatusList),
                err |-> NoErr,
                cluster |-> objects, calls |-> <<>>]
          ELSE
            LET acc == deleteCandidatesFrom(indices, 1,
                          [existing |-> existingStatusList, cluster |-> objects,
                           calls |-> <<>>, err |-> NoErr], failing, t)
            IN  IF acc.err # NoErr
                THEN [resources |-> <<>>, err |-> acc.err,
                      cluster |-> acc.cluster, calls |-> acc.calls]
                ELSE \* the prior list, with its DeletionFailed conditions, is dropped
                     [resources |-> newStatusList, err |-> NoErr,
                      cluster |-> acc.cluster, calls |-> acc.calls]

\* applySyncSetResources: returns the bundle status, the managed cluster, the
\* calls made and the error.
applySyncSetResources(applyMode, ssResources, syncSetStatus, objects, failing, t) ==
    LET bad == firstInfoFailure(ssResources, failing)
        probes == [n \in 1..(IF bad = 0 THEN Len(ssResources) ELSE bad) |->
                        IF n = bad THEN Failed(SyncCall("Info", ssResources[n]))
                        ELSE SyncCall("Info", ssResources[n])]
    IN  IF bad # 0
        THEN LET err == Err("InfoError", ssResources[bad].info.name)
             IN  [status |-> [syncSetStatus EXCEPT !.conditions =
                        \* the loop index i is zero-based
                        setUnknownObjectSyncCondition(@, err, bad - 1, t)],
                  cluster |-> objects, calls |-> probes, err |-> err]
        ELSE
          LET status1 == [syncSetStatus EXCEPT !.conditions =
                            setUnknownObjectSyncCondition(@, NoErr, 0, t)]
              \* lines 484-499: the outcome of the deletion pass is recorded
              recorded(acc, del) ==
                  [status |-> [status1 EXCEPT !.resources = del.resources],
                   cluster |-> del.cluster,
                   calls |-> acc.calls \o del.calls,
                   err |-> IF del.err # NoErr THEN del.err ELSE acc.applyErr]
              \* line 484: the deletion pass follows the apply loop
              reconciled(acc) ==
                  recorded(acc, reconcileDeletedSyncSetResources(applyMode,
                                    acc.existing, acc.newList, acc.applyErr,
                                    acc.cluster, failing, t))
          IN  reconciled(applyResourcesFrom(ssResources, 1,
                            [existing |-> status1.resources, newList |-> <<>>,
                             cluster |-> objects, calls |-> probes,
                             applyErr |-> NoErr],
                            failing, t))

-----------------------------------------------------------------------------
(* Patch apply (syncset_controller.go:503-569)                             *)

\* Lines 517-552: whether the patch is applied in this pass.
\* The apply mode of the patch is not looked at.
patchDecisionAnyMode(existing, ssPatch, patchSyncStatus, t) ==
    LET Match(pss) == SamePatch(pss, patchSyncStatus)
        j == IndexWhere({ix \in DOMAIN existing : Match(existing[ix])})
        found == j # 0
        conds == IF found THEN existing[j].conditions ELSE <<>>
        different == found /\ existing[j].hash # patchSyncStatus.hash
        fi == FindSyncCondition(conds, "ApplyFailure")
        failedLastTime == found /\ ~different /\ fi # 0 /\ conds[fi].status = "True"
        si == FindSyncCondition(conds, "ApplySuccess")
        stale == /\ found /\ ~different /\ ~failedLastTime
                 /\ si # 0 /\ reapplyDue(conds[si].lastProbeTime, t)
    IN  [j |-> j, conditions |-> conds,
         apply |-> ~found \/ different \/ failedLastTime \/ stale]

patchDecision(existing, ssPatch, patchSyncStatus, t) ==
    LET Match(pss) == SamePatch(pss, patchSyncStatus)
        j == IndexWhere({ix \in DOMAIN existing : Match(existing[ix])})
        found == j # 0
        conds == IF found THEN existing[j].conditions ELSE <<>>
        different == found /\ existing[j].hash # patchSyncStatus.hash
        fi == FindSyncCondition(conds, "ApplyFailure")
        failedLastTime == found /\ ~different /\ fi # 0 /\ conds[fi].status = "True"
        si == FindSyncCondition(conds, "ApplySuccess")
        stale == /\ found /\ ~different /\ ~failedLastTime
                 /\ ssPatch.applyMode # "ApplyOnce"
                 /\ si # 0 /\ reapplyDue(conds[si].lastProbeTime, t)
    IN  [j |-> j, conditions |-> conds,
         apply |-> ~found \/ different \/ failedLastTime \/ stale]

\* One iteration of the loop of lines 506-567.
applyPatch(acc, ssPatch, failing, t) ==
    LET patchSyncStatus ==
            [apiVersion |-> ssPatch.apiVersion, kind |-> ssPatch.kind,
             resource |-> "", name |-> ssPatch.name, namespace |-> ssPatch.namespace,
             hash |-> resourceHash(ssPatch.patch), conditions |-> <<>>]
        d == patchDecision(acc.patches, ssPatch, patchSyncStatus, t)
        err == IF Fail("Patch", ssPatch.name) \in failing
               THEN Err("PatchError", ssPatch.name) ELSE NoErr
        newConds == setApplySyncConditions(d.conditions, err, t)
    IN  IF d.apply
        THEN [patches |-> appendOrUpdateSyncStatus(acc.patches,
                            [patchSyncStatus EXCEPT !.conditions = newConds]),
              calls |-> Append(acc.calls,
                           IF err = NoErr THEN SyncCall("Patch", ssPatch)
                           ELSE Failed(SyncCall("Patch", ssPatch))),
              err |-> err]
        ELSE acc

RECURSIVE applyPatchesFrom(_, _, _, _, _)
applyPatchesFrom(ssPatches, i, acc, failing, t) ==
    IF i > Len(ssPatches) \/ acc.err # NoErr THEN acc
    ELSE applyPatchesFrom(ssPatches, i + 1,
                          applyPatch(acc, ssPatches[i], failing, t), failing, t)

\* applySyncSetPatches: returns the bundle status, the calls made and the error.
applySyncSetPatches(ssPatches, syncSetStatus, failing, t) ==
    LET acc == applyPatchesFrom(ssPatches, 1,
                    [patches |-> syncSetStatus.patches, calls |-> <<>>, err |-> NoErr],
                    failing, t)
    IN  [status |-> [syncSetStatus EXCEPT !.patches = acc.patches],
         calls |-> acc.calls, err |-> acc.err]

-----------------------------------------------------------------------------
(* Bundles: fan-in, patch-type migration, cleanup                          *)

\* The SyncSets and SelectorSyncSets of the model, in the order List returns
\* them.  A SelectorSyncSet is cluster-scoped: its namespace is empty.
SyncSetKeys == <<ObjKey("acme", "s1")>>
SelectorSyncSetKeys == <<ObjKey("", "x1")>>

SeqRange(list) == {list[i] : i \in 1..Len(list)}

\* metav1.LabelSelectorAsSelector fails on a malformed selector.
LabelSelectorMatches(selector, cdLabels) == selector.matchLabels \subseteq cdLabels

\* getRelatedSyncSets (lines 812-830): the keys of the SyncSets of the CD's
\* namespace that name the CD.
getRelatedSyncSets(w, k) ==
    LET Related(key) ==
            /\ w.syncSets[key].exists
            /\ key.namespace = k.namespace
            /\ k.name \in w.syncSets[key].clusterDeploymentRefs
    IN  SelectSeq(SyncSetKeys, Related)

\* getRelatedSelectorSyncSets (lines 788-810)
getRelatedSelectorSyncSets(w, k) ==
    LET Related(key) ==
            /\ w.selectorSyncSets[key].exists
            /\ w.selectorSyncSets[key].selector.valid
            /\ LabelSelectorMatches(w.selectorSyncSets[key].selector, w.cds[k].labels)
    IN  SelectSeq(SelectorSyncSetKeys, Related)

\* The new spellings count as outdated too.
OldAndNewPatchTypes ==
    {"application/json-patch+json", "application/merge-patch+json",
     "application/strategic-merge-patch+json", "json", "merge", "strategic"}

\* oldPatchTypes (lines 849-855): string(types.JSONPatchType) and so on.
OldPatchTypes ==
    {"application/json-patch+json", "application/merge-patch+json",
     "application/strategic-merge-patch+json"}

NewPatchType(patchType) ==
    CASE patchType = "application/json-patch+json" -> "json"
      [] patchType = "application/merge-patch+json" -> "merge"
      [] patchType = "application/strategic-merge-patch+json" -> "strategic"
      [] OTHER -> patchType

migratePatches(patches) ==
    [j \in 1..Len(patches) |->
        [patches[j] EXCEPT !.patchType = NewPatchType(@)]]

\* client.Update of a bundle: an object with a deletion timestamp and no
\* finalizer left is removed.
ClientUpdateBundle(stored, key, obj) ==
    [stored EXCEPT ![key] =
        IF obj.deletionTimestamp /\ obj.finalizers = {} THEN NoObj ELSE obj]

BundleCall(op, target, bundleKind, bundle) ==
    [op |-> op, target |-> target, ok |-> TRUE,
     bundleKind |-> bundleKind, bundle |-> bundle]

TagCalls(calls, bundleKind, bundle) ==
    [n \in 1..Len(calls) |->
        [BundleCall(calls[n].op, calls[n].target, bundleKind, bundle)
            EXCEPT !.ok = calls[n].ok]]

\* migrateSyncSetPatchTypes / migrateSelectorSyncSetPatchTypes (lines 857-901)
\* over the listed items: acc holds the items in memory, the stored objects,
\* the calls made and the error that ends the loop.
migrateItem(acc, key, bundleKind, failing) ==
    LET item == acc.items[key]
        migrated == \E j \in 1..Len(item.patches) :
                        item.patches[j].patchType \in OldPatchTypes
        item2 == [item EXCEPT !.patches = migratePatches(@)]
        call == BundleCall("Update", "migrate", bundleKind, key.name)
    IN  IF ~migrated THEN acc
        ELSE IF Fail("MigrateUpdate", key.name) \in failing
        THEN [acc EXCEPT !.items[key] = item2,
                         !.calls = Append(@, Failed(call)),
                         !.err = Err("UpdateError", key.name)]
        ELSE [acc EXCEPT !.items[key] = item2,
                         !.stored = ClientUpdateBundle(@, key, item2),
                         !.calls = Append(@, call)]

RECURSIVE migratePatchTypesFrom(_, _, _, _, _)
migratePatchTypesFrom(keys, i, acc, bundleKind, failing) ==
    IF i > Len(keys) \/ acc.err # NoErr THEN acc
    ELSE migratePatchTypesFrom(keys, i + 1,
                               migrateItem(acc, keys[i], bundleKind, failing),
                               bundleKind, failing)

migratePatchTypes(keys, stored, bundleKind, failing) ==
    migratePatchTypesFrom(keys, 1,
        [items |-> stored, stored |-> stored, calls |-> <<>>, err |-> NoErr],
        bundleKind, failing)

\* deleteSyncSetResources (lines 630-654): a delete for every recorded
\* resource; errors other than a malformed apiVersion are only logged.
deleteRecorded(acc, resourceStatus, failing) ==
    LET key == ClusterKey(resourceStatus.apiVersion, resourceStatus.resource,
                          resourceStatus.namespace, resourceStatus.name)
        call == SyncCall("Delete", key)
    IN  IF ParseGroupVersionFails(resourceStatus.apiVersion)
        THEN [acc EXCEPT !.err = Err("ParseGroupVersion", resourceStatus.name)]
        ELSE IF Fail("Delete", resourceStatus.name) \in failing
        THEN [acc EXCEPT !.calls = Append(@, Failed(call))]
        ELSE [acc EXCEPT !.calls = Append(@, call), !.cluster = @ \ {key}]

RECURSIVE deleteRecordedFrom(_, _, _, _)
deleteRecordedFrom(resources, i, acc, failing) ==
    IF i > Len(resources) \/ acc.err # NoErr THEN acc
    ELSE deleteRecordedFrom(resources, i + 1,
                            deleteRecorded(acc, resources[i], failing), failing)

deleteSyncSetResources(syncSetStatus, objects, failing) ==
    deleteRecordedFrom(syncSetStatus.resources, 1,
        [cluster |-> objects, calls |-> <<>>, err |-> NoErr], failing)

-----------------------------------------------------------------------------
(* Sync reconciler (syncset_controller.go:187-390)                         *)

\* The status list of the CD a bundle kind is recorded in.
StatusList(cd, field) ==
    IF field = "SyncSetStatus" THEN cd.syncSetStatus ELSE cd.selectorSyncSetStatus

WithStatusList(cd, field, statusList) ==
    IF field = "SyncSetStatus" THEN [cd EXCEPT !.syncSetStatus = statusList]
    ELSE [cd EXCEPT !.selectorSyncSetStatus = statusList]

\* Lines 303 and 360: a bundle's outcome is read from and recorded in the
\* status list of its kind.
ApplyStatusField(bundleKind) ==
    IF bundleKind = "SyncSet" THEN "SyncSetStatus" ELSE "SelectorSyncSetStatus"

\* Lines 275, 282, 332 and 339: the cleanup of a deleting bundle reads and
\* prunes cd.Status.SyncSetStatus, for a SelectorSyncSet too.
CleanupStatusField(bundleKind) == "SyncSetStatus"

\* The body of the loops of lines 268-323 and 325-380 for one bundle.  S is
\* the state of the pass: the working copy of the CD, the listed items, the
\* stored bundles of the kind, the managed cluster, the calls made, the first
\* error, and whether the pass has returned (with which error).
processBundle(S, bundleKind, key, failing, t) ==
    LET item == S.items[key]
        name == key.name
        update == BundleCall("Update", "finalizer", bundleKind, name)
    IN  IF S.returned THEN S
        ELSE IF item.deletionTimestamp /\ HasFinalizer(item, FinalizerSyncSetCleanup)
        THEN
          LET field == CleanupStatusField(bundleKind)
              del == IF item.resourceDeletionPolicy # "Orphan"
                     THEN deleteSyncSetResources(
                            findSyncSetStatus(name, StatusList(S.cd, field)),
                            S.cluster, failing)
                     ELSE [cluster |-> S.cluster, calls |-> <<>>, err |-> NoErr]
              S1 == [S EXCEPT
                        !.cluster = del.cluster,
                        !.calls = @ \o TagCalls(del.calls, bundleKind, name)
                                    \o <<IF Fail("Update", name) \in failing
                                          THEN Failed(update) ELSE update>>,
                        !.cd = WithStatusList(@, field,
                                  removeSyncSetObjectStatus(StatusList(@, field), name))]
          IN  IF Fail("Update", name) \in failing
              THEN [S1 EXCEPT !.returned = TRUE, !.err = Err("UpdateError", name)]
              ELSE [S1 EXCEPT !.stored = ClientUpdateBundle(@, key,
                                    DeleteFinalizer(item, FinalizerSyncSetCleanup))]
        ELSE IF ~HasFinalizer(item, FinalizerSyncSetCleanup)
        THEN
          IF Fail("Update", name) \in failing
          THEN [S EXCEPT !.calls = Append(@, Failed(update)),
                         !.returned = TRUE, !.err = Err("UpdateError", name)]
          ELSE [S EXCEPT !.calls = Append(@, update),
                         !.stored = ClientUpdateBundle(@, key,
                                        AddFinalizer(item, FinalizerSyncSetCleanup))]
        ELSE
          LET field == ApplyStatusField(bundleKind)
              syncSetStatus == findSyncSetStatus(name, StatusList(S.cd, field))
              first(err) == IF S.firstSyncSetErr = NoErr
                            THEN [kind |-> err.kind, detail |-> err.detail,
                                  bundleKind |-> bundleKind, bundle |-> name]
                            ELSE S.firstSyncSetErr
              \* patches are skipped when resources could not be applied
              failed(r) ==
                   [S EXCEPT
                      !.cluster = r.cluster,
                      !.calls = @ \o TagCalls(r.calls, bundleKind, name),
                      !.cd = WithStatusList(@, field,
                                appendOrUpdateSyncSetObjectStatus(
                                    StatusList(@, field), r.status)),
                      !.firstSyncSetErr = first(r.err)]
              patched(r, p) ==
                   [S EXCEPT
                      !.cluster = r.cluster,
                      !.calls = @ \o TagCalls(r.calls \o p.calls, bundleKind, name),
                      !.cd = WithStatusList(@, field,
                                appendOrUpdateSyncSetObjectStatus(
                                    StatusList(@, field), p.status)),
                      !.firstSyncSetErr =
                          IF p.err # NoErr THEN first(p.err) ELSE @]
              applied(r) ==
                   IF r.err # NoErr THEN failed(r)
                   ELSE patched(r, applySyncSetPatches(item.patches, r.status,
                                                       failing, t))
          IN  applied(applySyncSetResources(item.resourceApplyMode, item.resources,
                                            syncSetStatus, S.cluster, failing, t))

RECURSIVE processBundlesFrom(_, _, _, _, _, _)
\* The loop ends at the first bundle that recorded an error.
processBundlesFromUntilError(keys, i, S, bundleKind, failing, t) ==
    IF i > Len(keys) \/ S.firstSyncSetErr # NoErr THEN S
    ELSE processBundlesFrom(keys, i + 1,
                            processBundle(S, bundleKind, keys[i], failing, t),
                            bundleKind, failing, t)

processBundlesFrom(keys, i, S, bundleKind, failing, t) ==
    IF i > Len(keys) THEN S
    ELSE processBundlesFrom(keys, i + 1,
                            processBundle(S, bundleKind, keys[i], failing, t),
                            bundleKind, failing, t)

\* reflect.DeepEqual(cd.Status, origCD.Status)
StatusEqual(cd, origCD) ==
    /\ cd.installed = origCD.installed
    /\ cd.syncSetStatus = origCD.syncSetStatus
    /\ cd.selectorSyncSetStatus = origCD.selectorSyncSetStatus

\* r.Status().Update: only the status of the stored CD is replaced.
ClientStatusUpdateCD(storedCDs, k, cd) ==
    [storedCDs EXCEPT ![k].installed = cd.installed,
                      ![k].syncSetStatus = cd.syncSetStatus,
                      ![k].selectorSyncSetStatus = cd.selectorSyncSetStatus]

\* Lines 218-390, for a CD that passed the gates.  The world w holds the
\* stored CDs, SyncSets and SelectorSyncSets and the managed clusters.
syncInstalledClusterDeployment(w, k, failing, t) ==
    LET origCD == w.cds[k]
        syncSetKeys == getRelatedSyncSets(w, k)
        selectorSyncSetKeys == getRelatedSelectorSyncSets(w, k)
        lists == <<BundleCall("List", "SyncSet", "", ""),
                   BundleCall("List", "SelectorSyncSet", "", "")>>
        statusUpdate == BundleCall("UpdateStatus", "ClusterDeployment", "", "")
        \* lines 382-389: the status update and the returned error
        finish(wm, S1, S2) ==
            LET w2 == [wm EXCEPT !.syncSets = S1.stored,
                                 !.selectorSyncSets = S2.stored,
                                 !.cluster[k] = S2.cluster]
            IN  IF S2.returned
                THEN Result(w2, S2.calls, S2.err)
                ELSE IF StatusEqual(S2.cd, origCD)
                THEN Result(w2, S2.calls, S2.firstSyncSetErr)
                ELSE IF Fail("UpdateStatus", "") \in failing
                THEN Result(w2, Append(S2.calls, Failed(statusUpdate)),
                            Err("UpdateError", ""))
                ELSE Result([w2 EXCEPT !.cds = ClientStatusUpdateCD(@, k, S2.cd)],
                            Append(S2.calls, statusUpdate), S2.firstSyncSetErr)
        \* lines 325-380: the SelectorSyncSets follow the SyncSets
        selectorSyncSetLoop(wm, m2, S1) ==
            finish(wm, S1,
                   processBundlesFrom(selectorSyncSetKeys, 1,
                        [S1 EXCEPT !.items = m2.items, !.stored = m2.stored],
                        "SelectorSyncSet", failing, t))
        \* lines 250-323: secret, client, then the SyncSets
        syncSetLoop(wm, callsm, m1, m2) ==
            IF Fail("loadSecretData", "") \in failing
            THEN Result(wm, callsm, Err("SecretError", ""))
            ELSE IF Fail("dynamicClientBuilder", "") \in failing
            THEN Result(wm, callsm, Err("ClientError", ""))
            ELSE selectorSyncSetLoop(wm, m2,
                    processBundlesFrom(syncSetKeys, 1,
                        [cd |-> origCD, items |-> m1.items, stored |-> m1.stored,
                         cluster |-> w.cluster[k], calls |-> callsm,
                         firstSyncSetErr |-> NoErr, returned |-> FALSE,
                         err |-> NoErr],
                        "SyncSet", failing, t))
        \* lines 239-246: migration errors are only logged
        migrated(m1, m2) ==
            syncSetLoop([w EXCEPT !.syncSets = m1.stored,
                                  !.selectorSyncSets = m2.stored],
                        lists \o m1.calls \o m2.calls, m1, m2)
    IN  IF Fail("ListSyncSets", "") \in failing
        THEN Result(w, <<Failed(lists[1])>>, Err("ListError", "SyncSet"))
        ELSE IF Fail("ListSelectorSyncSets", "") \in failing
        THEN Result(w, <<lists[1], Failed(lists[2])>>,
                    Err("ListError", "SelectorSyncSet"))
        ELSE migrated(migratePatchTypes(syncSetKeys, w.syncSets, "SyncSet", failing),
                      migratePatchTypes(selectorSyncSetKeys, w.selectorSyncSets,
                                        "SelectorSyncSet", failing))

\* The sync reconciler does not look at Status.Installed.
ReconcileSyncSetNoInstalledGate(w, k, failing, t) ==
    IF Fail("GetCD", "") \in failing THEN Result(w, <<>>, Err("GetError", ""))
    ELSE IF ~w.cds[k].exists THEN Result(w, <<>>, NoErr)
    ELSE IF w.cds[k].deletionTimestamp THEN Result(w, <<>>, NoErr)
    ELSE syncInstalledClusterDeployment(w, k, failing, t)

\* The sync reconciler does not look at the deletion timestamp.
ReconcileSyncSetNoDeletionGate(w, k, failing, t) ==
    IF Fail("GetCD", "") \in failing THEN Result(w, <<>>, Err("GetError", ""))
    ELSE IF ~w.cds[k].exists THEN Result(w, <<>>, NoErr)
    ELSE IF ~w.cds[k].installed THEN Result(w, <<>>, NoErr)
    ELSE syncInstalledClusterDeployment(w, k, failing, t)

ReconcileSyncSet(w, k, failing, t) ==
    IF Fail("GetCD", "") \in failing THEN Result(w, <<>>, Err("GetError", ""))
    ELSE IF ~w.cds[k].exists THEN Result(w, <<>>, NoErr)
    ELSE IF w.cds[k].deletionTimestamp THEN Result(w, <<>>, NoErr)
    ELSE IF ~w.cds[k].installed THEN Result(w, <<>>, NoErr)
    ELSE syncInstalledClusterDeployment(w, k, failing, t)

-----------------------------------------------------------------------------
(* Bounds and input domains                                                *)

\* The clock runs from 0 to MaxTime hours.
MaxTime == 3

NewCD(finalizers, labels) ==
    [exists |-> TRUE, deletionTimestamp |-> FALSE, finalizers |-> finalizers,
     labels |-> labels, installed |-> FALSE,
     syncSetStatus |-> <<>>, selectorSyncSetStatus |-> <<>>]

CDLabels == {"env=prod"}

\* Resource blobs and patches users put in bundles.
RawA1 == Raw(InfoA, 1)
RawA2 == Raw(InfoA, 2)
RawB1 == Raw(InfoB, 1)
RawB2 == Raw(InfoB, 2)

SyncObjectPatch(name, body, patchType, applyMode) ==
    [apiVersion |-> "v1", kind |-> "ConfigMap", name |-> name,
     namespace |-> "default", patch |-> body,
     patchType |-> patchType, applyMode |-> applyMode]

PatchP == SyncObjectPatch("p", 1, "application/merge-patch+json", "AlwaysApply")

ResourceLists == {<<RawA1, RawB1>>, <<RawA2, RawB1>>, <<RawA1>>}
PatchP2 == SyncObjectPatch("p", 2, "application/merge-patch+json", "AlwaysApply")

PatchLists == {<<PatchP>>, <<PatchP2>>}
ResourceApplyModes == {"", "upsert", "sync"}
ResourceDeletionPolicies == {"Delete", "Orphan"}

NewSyncSet(refs, resources, patches, applyMode, deletionPolicy) ==
    [exists |-> TRUE, deletionTimestamp |-> FALSE, finalizers |-> {},
     clusterDeploymentRefs |-> refs, resources |-> resources, patches |-> patches,
     resourceApplyMode |-> applyMode, resourceDeletionPolicy |-> deletionPolicy]

LabelSelector(matchLabels, valid) == [matchLabels |-> matchLabels, valid |-> valid]

NewSelectorSyncSet(selector, resources, patches, applyMode, deletionPolicy) ==
    [exists |-> TRUE, deletionTimestamp |-> FALSE, finalizers |-> {},
     selector |-> selector, resources |-> resources, patches |-> patches,
     resourceApplyMode |-> applyMode, resourceDeletionPolicy |-> deletionPolicy]

\* The platform calls of a lifecycle pass that may fail: at most one per
\* pass.  (generateInstallerJob and SetControllerReference compute on a
\* well-formed CD and a registered scheme: they do not fail.)
LifecycleFailures ==
    {{}} \cup {{f} : f \in {"GetCD", "GetCfgMap", "CreateCfgMap", "GetJob",
                             "CreateJob", "UpdateCD"}}

\* The failures of a sync pass considered next to the lifecycle reconciler.
GateSyncFailures ==
    {{}} \cup {{Fail(op, "")} : op \in {"GetCD", "ListSyncSets", "ListSelectorSyncSets",
                                        "loadSecretData", "dynamicClientBuilder",
                                        "UpdateStatus"}}
         \cup {{Fail("Apply", "a")}}

-----------------------------------------------------------------------------
(* Actions: reconcile passes                                               *)

LifecycleReconcile(k, failing) ==
    LET w == [cds |-> cds, jobs |-> jobs, cfgMaps |-> cfgMaps]
    IN  \E r \in {ReconcileClusterDeployment(w, k, failing)} :
        /\ cds' = r.w.cds
        /\ jobs' = r.w.jobs
        /\ cfgMaps' = r.w.cfgMaps
        /\ pass' = [controller |-> "lifecycle", key |-> k,
                    cd |-> cds[k],
                    installJob |-> jobs[ObjKey(k.namespace, InstallJobName(k.name))],
                    uninstallJob |-> jobs[ObjKey(k.namespace, UninstallJobName(k.name))],
                    cfgMap |-> cfgMaps[ObjKey(k.namespace, InstallJobName(k.name))],
                    calls |-> r.calls, err |-> r.err]
        /\ UNCHANGED <<syncSets, selectorSyncSets, cluster, now>>

SyncReconcile(k, failing) ==
    LET w == [cds |-> cds, syncSets |-> syncSets,
              selectorSyncSets |-> selectorSyncSets, cluster |-> cluster]
    IN  \E r \in {ReconcileSyncSet(w, k, failing, now)} :
        /\ cds' = r.w.cds
        /\ syncSets' = r.w.syncSets
        /\ selectorSyncSets' = r.w.selectorSyncSets
        /\ cluster' = r.w.cluster
        /\ pass' = [controller |-> "sync", key |-> k,
                    calls |-> r.calls, err |-> r.err]
        /\ UNCHANGED <<jobs, cfgMaps, now>>

-----------------------------------------------------------------------------
(* Actions: users, the job controller, other controllers, the clock        *)

NoPass == [controller |-> "none"]

CreateCD(k, finalizers) ==
    /\ ~cds[k].exists
    /\ cds' = [cds EXCEPT ![k] = NewCD(finalizers, CDLabels)]
    /\ pass' = NoPass
    /\ UNCHANGED <<jobs, cfgMaps, syncSets, selectorSyncSets, cluster, now>>

\* A delete request: the object goes at once when it has no finalizer.
DeleteCD(k) ==
    /\ cds[k].exists
    /\ ~cds[k].deletionTimestamp
    /\ cds' = [cds EXCEPT ![k] =
                IF cds[k].finalizers = {} THEN NoObj
                ELSE [@ EXCEPT !.deletionTimestamp = TRUE]]
    /\ pass' = NoPass
    /\ UNCHANGED <<jobs, cfgMaps, syncSets, selectorSyncSets, cluster, now>>

\* Another controller removes its own finalizer.
RemoveOtherFinalizer(k) ==
    /\ cds[k].exists
    /\ FinalizerOther \in cds[k].finalizers
    /\ LET cd == DeleteFinalizer(cds[k], FinalizerOther)
       IN  cds' = [cds EXCEPT ![k] =
                    IF cd.deletionTimestamp /\ cd.finalizers = {} THEN NoObj ELSE cd]
    /\ pass' = NoPass
    /\ UNCHANGED <<jobs, cfgMaps, syncSets, selectorSyncSets, cluster, now>>

\* The job controller reports on a job.
JobReports(jk, conditions) ==
    /\ jobs[jk].exists
    /\ jobs[jk].conditions # conditions
    /\ jobs' = [jobs EXCEPT ![jk].conditions = conditions]
    /\ pass' = NoPass
    /\ UNCHANGED <<cds, cfgMaps, syncSets, selectorSyncSets, cluster, now>>

\* A job is deleted (by a user, or by garbage collection).
DeleteJob(jk) ==
    /\ jobs[jk].exists
    /\ jobs' = [jobs EXCEPT ![jk] = NoObj]
    /\ pass' = NoPass
    /\ UNCHANGED <<cds, cfgMaps, syncSets, selectorSyncSets, cluster, now>>

DeleteCfgMap(ck) ==
    /\ cfgMaps[ck].exists
    /\ cfgMaps' = [cfgMaps EXCEPT ![ck] = NoObj]
    /\ pass' = NoPass
    /\ UNCHANGED <<cds, jobs, syncSets, selectorSyncSets, cluster, now>>

\* A user edits the resources of a SyncSet.
EditSyncSet(key, resources) ==
    /\ syncSets[key].exists
    /\ ~syncSets[key].deletionTimestamp
    /\ syncSets[key].resources # resources
    /\ syncSets' = [syncSets EXCEPT ![key].resources = resources]
    /\ pass' = NoPass
    /\ UNCHANGED <<cds, jobs, cfgMaps, selectorSyncSets, cluster, now>>

\* A user edits the patches of a SyncSet.
EditSyncSetPatches(key, patches) ==
    /\ syncSets[key].exists
    /\ ~syncSets[key].deletionTimestamp
    /\ syncSets[key].patches # patches
    /\ syncSets' = [syncSets EXCEPT ![key].patches = patches]
    /\ pass' = NoPass
    /\ UNCHANGED <<cds, jobs, cfgMaps, selectorSyncSets, cluster, now>>

DeleteSyncSet(key) ==
    /\ syncSets[key].exists
    /\ ~syncSets[key].deletionTimestamp
    /\ syncSets' = [syncSets EXCEPT ![key] =
            IF syncSets[key].finalizers = {} THEN NoObj
            ELSE [@ EXCEPT !.deletionTimestamp = TRUE]]
    /\ pass' = NoPass
    /\ UNCHANGED <<cds, jobs, cfgMaps, selectorSyncSets, cluster, now>>

\* A user deletes a SelectorSyncSet.
DeleteSelectorSyncSet(key) ==
    /\ selectorSyncSets[key].exists
    /\ ~selectorSyncSets[key].deletionTimestamp
    /\ selectorSyncSets' = [selectorSyncSets EXCEPT ![key] =
            IF selectorSyncSets[key].finalizers = {} THEN NoObj
            ELSE [@ EXCEPT !.deletionTimestamp = TRUE]]
    /\ pass' = NoPass
    /\ UNCHANGED <<cds, jobs, cfgMaps, syncSets, cluster, now>>

\* A user edits the resources of a SelectorSyncSet.
EditSelectorSyncSet(key, resources) ==
    /\ selectorSyncSets[key].exists
    /\ ~selectorSyncSets[key].deletionTimestamp
    /\ selectorSyncSets[key].resources # resources
    /\ selectorSyncSets' = [selectorSyncSets EXCEPT ![key].resources = resources]
    /\ pass' = NoPass
    /\ UNCHANGED <<cds, jobs, cfgMaps, syncSets, cluster, now>>

\* An hour passes.
Tick ==
    /\ now < MaxTime
    /\ now' = now + 1
    /\ pass' = NoPass
    /\ UNCHANGED <<cds, jobs, cfgMaps, syncSets, selectorSyncSets, cluster>>

-----------------------------------------------------------------------------
(* Specifications                                                          *)

\* Lifecycle and sync reconciler over a ClusterDeployment that users create
\* and delete, with one SyncSet that targets it.
Init ==
    /\ cds = [k \in CDKeys |-> NoObj]
    /\ jobs = [jk \in JobKeys |-> NoObj]
    /\ cfgMaps = [ck \in CfgMapKeys |-> NoObj]
    /\ syncSets = [key \in SeqRange(SyncSetKeys) |->
            NewSyncSet({k.name : k \in CDKeys}, <<RawA1>>, <<PatchP>>, "sync", "Delete")]
    /\ selectorSyncSets = [key \in SeqRange(SelectorSyncSetKeys) |-> NoObj]
    /\ cluster = [k \in CDKeys |-> {}]
    /\ now = 0
    /\ pass = NoPass

Next ==
    \/ \E k \in CDKeys, failing \in LifecycleFailures : LifecycleReconcile(k, failing)
    \/ \E k \in CDKeys, failing \in GateSyncFailures : SyncReconcile(k, failing)
    \/ \E k \in CDKeys, f \in {{}, {FinalizerOther}} : CreateCD(k, f)
    \/ \E k \in CDKeys : DeleteCD(k)
    \/ \E k \in CDKeys : RemoveOtherFinalizer(k)
    \/ \E jk \in JobKeys, c \in JobConditionLists : JobReports(jk, c)
    \/ \E jk \in JobKeys : DeleteJob(jk)
    \/ \E ck \in CfgMapKeys : DeleteCfgMap(ck)

Spec == Init /\ [][Next]_vars

\* The sync engine over an installed ClusterDeployment, as the lifecycle
\* reconciler leaves it, while users create, edit and delete bundles.
InstalledCD ==
    [NewCD({FinalizerDeprovision}, CDLabels) EXCEPT !.installed = TRUE]

\* The platform around an installed ClusterDeployment with one SyncSet.
InstalledWith(syncSet, selectorSyncSet) ==
    /\ cds = [k \in CDKeys |-> InstalledCD]
    /\ jobs = [jk \in JobKeys |->
            IF jk.name[2] = "-install"
            THEN [NewJob(CHOOSE k \in CDKeys : k.name = jk.name[1], FALSE)
                    EXCEPT !.conditions = <<JobCondition("Complete", "True")>>]
            ELSE NoObj]
    /\ cfgMaps = [ck \in CfgMapKeys |->
            NewCfgMap(CHOOSE k \in CDKeys : k.name = ck.name[1])]
    /\ syncSets = [key \in SeqRange(SyncSetKeys) |-> syncSet]
    /\ selectorSyncSets = [key \in SeqRange(SelectorSyncSetKeys) |-> selectorSyncSet]
    /\ cluster = [k \in CDKeys |-> {}]
    /\ now = 0
    /\ pass = NoPass

\* A user has created a SyncSet for the CD.
SyncInit ==
    \E r \in ResourceLists, m \in ResourceApplyModes, d \in ResourceDeletionPolicies :
        InstalledWith(NewSyncSet({k.name : k \in CDKeys}, r, <<>>, m, d), NoObj)

\* The failures of a sync pass over the resources of a bundle.
ApplyFailures ==
    {{}} \cup {{Fail(op, n)} : op \in {"Apply", "Delete"}, n \in {"a", "b"}}
         \cup {{Fail("Info", "b")}, {Fail("UpdateStatus", "")}, {Fail("Update", "s1")}}

\* Users edit and delete the SyncSet; the clock stands still.
SyncNext ==
    \/ \E k \in CDKeys, failing \in ApplyFailures : SyncReconcile(k, failing)
    \/ \E key \in SeqRange(SyncSetKeys), r \in ResourceLists : EditSyncSet(key, r)
    \/ \E key \in SeqRange(SyncSetKeys) : DeleteSyncSet(key)

SyncSpec == SyncInit /\ [][SyncNext]_vars

\* The failures of a sync pass considered while the clock runs.
ReapplyFailures == {{}, {Fail("Apply", "a")}, {Fail("Apply", "b")}}

ReapplyInit ==
    \E r \in ResourceLists, m \in {"upsert", "sync"} :
        InstalledWith(NewSyncSet({k.name : k \in CDKeys}, r, <<>>, m, "Delete"), NoObj)

\* The sync engine over the resources of a SyncSet while the clock runs.
ReapplyNext ==
    \/ \E k \in CDKeys, failing \in ReapplyFailures : SyncReconcile(k, failing)
    \/ \E key \in SeqRange(SyncSetKeys), r \in ResourceLists : EditSyncSet(key, r)
    \/ Tick

ReapplySpec == ReapplyInit /\ [][ReapplyNext]_vars

\* The failures of a sync pass over a SyncSet with one resource and one
\* patch and a SelectorSyncSet with one resource.
ConditionFailures ==
    {{}, {Fail("Apply", "a")}, {Fail("Apply", "b")}, {Fail("Patch", "p")},
     {Fail("Apply", "a"), Fail("Apply", "b")}, {Fail("UpdateStatus", "")}}

SyncSetResourceLists == {<<RawA1>>, <<RawA2>>}
SelectorSyncSetResourceLists == {<<RawB1>>, <<RawB2>>}

ConditionInit ==
    \E p \in PatchLists :
        InstalledWith(
            NewSyncSet({k.name : k \in CDKeys}, <<RawA1>>, p, "sync", "Delete"),
            NewSelectorSyncSet(LabelSelector(CDLabels, TRUE), <<RawB1>>, <<>>,
                               "upsert", "Delete"))

\* The sync engine over a SyncSet and a SelectorSyncSet whose resources and
\* patches users edit.
ConditionNext ==
    \/ \E k \in CDKeys, failing \in ConditionFailures : SyncReconcile(k, failing)
    \/ \E key \in SeqRange(SyncSetKeys), r \in SyncSetResourceLists :
            EditSyncSet(key, r)
    \/ \E key \in SeqRange(SyncSetKeys), p \in PatchLists : EditSyncSetPatches(key, p)
    \/ \E key \in SeqRange(SelectorSyncSetKeys), r \in SelectorSyncSetResourceLists :
            EditSelectorSyncSet(key, r)

ConditionSpec == ConditionInit /\ [][ConditionNext]_vars

\* The failures of a sync pass over bundles that users delete.
PatchQ == SyncObjectPatch("q", 1, "merge", "AlwaysApply")

OrderPatchLists == {<<PatchP>>, <<PatchP, PatchQ>>}

\* The failures of a sync pass over bundles with several resources and
\* patches.
OrderFailures ==
    {{}, {Fail("Apply", "a")}, {Fail("Apply", "b")}, {Fail("Info", "b")},
     {Fail("Patch", "p")}}

OrderInit ==
    \E r \in ResourceLists, p \in OrderPatchLists :
        InstalledWith(
            NewSyncSet({k.name : k \in CDKeys}, r, p, "sync", "Delete"),
            NewSelectorSyncSet(LabelSelector(CDLabels, TRUE), <<RawB1>>, <<PatchQ>>,
                               "sync", "Delete"))

\* The sync engine over a SyncSet with up to two resources and two patches
\* that users edit, followed by a SelectorSyncSet.
OrderNext ==
    \/ \E k \in CDKeys, failing \in OrderFailures : SyncReconcile(k, failing)
    \/ \E key \in SeqRange(SyncSetKeys), r \in ResourceLists : EditSyncSet(key, r)
    \/ \E key \in SeqRange(SyncSetKeys), p \in OrderPatchLists :
            EditSyncSetPatches(key, p)

OrderSpec == OrderInit /\ [][OrderNext]_vars

PatchOnce == SyncObjectPatch("p", 1, "merge", "ApplyOnce")

PatchAlways == SyncObjectPatch("p", 1, "merge", "AlwaysApply")

ApplyModePatchLists == {<<PatchOnce>>, <<PatchAlways>>, <<PatchP2>>}

ApplyModeFailures == {{}, {Fail("Patch", "p")}}

ApplyModeInit ==
    \E p \in ApplyModePatchLists :
        InstalledWith(NewSyncSet({k.name : k \in CDKeys}, <<>>, p, "upsert", "Delete"),
                      NoObj)

\* The sync engine over the patch of a SyncSet, whose body and apply mode
\* users edit, while the clock runs.
ApplyModeNext ==
    \/ \E k \in CDKeys, failing \in ApplyModeFailures : SyncReconcile(k, failing)
    \/ \E key \in SeqRange(SyncSetKeys), p \in ApplyModePatchLists :
            EditSyncSetPatches(key, p)
    \/ Tick

ApplyModeSpec == ApplyModeInit /\ [][ApplyModeNext]_vars

\* Bundles that may carry the finalizer of another controller, so that a
\* deleting bundle outlives the removal of the cleanup finalizer.
GuardFinalizers == {{}, {FinalizerOther}}

GuardFailures == {{}, {Fail("Apply", "a")}, {Fail("Update", "s1")}}

GuardInit ==
    \E f1 \in GuardFinalizers, f2 \in GuardFinalizers :
        InstalledWith(
            [NewSyncSet({k.name : k \in CDKeys}, <<RawA1>>, <<PatchQ>>,
                        "sync", "Delete") EXCEPT !.finalizers = f1],
            [NewSelectorSyncSet(LabelSelector(CDLabels, TRUE), <<RawB1>>,
                                <<PatchQ>>, "sync", "Delete")
                EXCEPT !.finalizers = f2])

GuardNext ==
    \/ \E k \in CDKeys, failing \in GuardFailures : SyncReconcile(k, failing)
    \/ \E key \in SeqRange(SyncSetKeys), r \in SyncSetResourceLists :
            EditSyncSet(key, r)
    \/ \E key \in SeqRange(SyncSetKeys) : DeleteSyncSet(key)
    \/ \E key \in SeqRange(SelectorSyncSetKeys) : DeleteSelectorSyncSet(key)

GuardSpec == GuardInit /\ [][GuardNext]_vars

CleanupFailures ==
    {{}} \cup {{Fail(op, n)} : op \in {"Apply", "Delete"}, n \in {"a", "b"}}
         \cup {{Fail("Update", "s1")}, {Fail("Update", "x1")},
               {Fail("UpdateStatus", "")}}

\* Users have created a SyncSet and a SelectorSyncSet for the CD.
CleanupInit ==
    \E d1 \in ResourceDeletionPolicies, d2 \in ResourceDeletionPolicies :
        InstalledWith(
            NewSyncSet({k.name : k \in CDKeys}, <<RawA1>>, <<>>, "sync", d1),
            NewSelectorSyncSet(LabelSelector(CDLabels, TRUE), <<RawB1>>, <<>>,
                               "sync", d2))

\* The sync engine over a SyncSet and a SelectorSyncSet that users edit and
\* delete.
CleanupNext ==
    \/ \E k \in CDKeys, failing \in CleanupFailures : SyncReconcile(k, failing)
    \/ \E key \in SeqRange(SyncSetKeys), r \in SyncSetResourceLists :
            EditSyncSet(key, r)
    \/ \E key \in SeqRange(SelectorSyncSetKeys), r \in SelectorSyncSetResourceLists :
            EditSelectorSyncSet(key, r)
    \/ \E key \in SeqRange(SyncSetKeys) : DeleteSyncSet(key)
    \/ \E key \in SeqRange(SelectorSyncSetKeys) : DeleteSelectorSyncSet(key)

CleanupSpec == CleanupInit /\ [][CleanupNext]_vars

\* Patches in the old and the new spellings of the patch type, and in a
\* spelling that is neither.
PatchOfType(name, patchType) == SyncObjectPatch(name, 1, patchType, "AlwaysApply")

MigrationPatchLists ==
    {<<>>,
     <<PatchOfType("p", "application/json-patch+json")>>,
     <<PatchOfType("p", "merge")>>,
     <<PatchOfType("p", "application/strategic-merge-patch+json"),
       PatchOfType("q", "json")>>,
     <<PatchOfType("p", "custom"),
       PatchOfType("q", "application/merge-patch+json")>>}

\* The failures of a sync pass over bundles with patches to migrate.
MigrationFailures ==
    {{}, {Fail("MigrateUpdate", "s1")}, {Fail("MigrateUpdate", "x1")},
     {Fail("Patch", "p")}}

MigrationInit ==
    \E p1 \in MigrationPatchLists, p2 \in MigrationPatchLists :
        InstalledWith(
            NewSyncSet({k.name : k \in CDKeys}, <<>>, p1, "sync", "Delete"),
            NewSelectorSyncSet(LabelSelector(CDLabels, TRUE), <<>>, p2,
                               "sync", "Delete"))

\* The sync engine over bundles whose patches users write in any spelling.
MigrationNext ==
    \/ \E k \in CDKeys, failing \in MigrationFailures : SyncReconcile(k, failing)
    \/ \E key \in SeqRange(SyncSetKeys), p \in MigrationPatchLists :
            EditSyncSetPatches(key, p)

MigrationSpec == MigrationInit /\ [][MigrationNext]_vars

-----------------------------------------------------------------------------
(* Lifecycle reconciler: deletion                                          *)

\* What the last lifecycle pass did.
LifecyclePass == pass.controller = "lifecycle"

IssuedLifecycle(op, kind, target) ==
    \E i \in 1..Len(pass.calls) :
        /\ pass.calls[i].op = op
        /\ pass.calls[i].kind = kind
        /\ pass.calls[i].target = target

\* The pass read the CD (and, on the deletion path, the uninstall job).
LifecycleReadsSucceeded == pass.err.kind \notin {"GetCD", "GetJob"}

PassCDDeletingWithFinalizer ==
    /\ pass.cd.exists
    /\ pass.cd.deletionTimestamp
    /\ HasFinalizer(pass.cd, FinalizerDeprovision)

UninstallJobWasComplete ==
    /\ pass.uninstallJob.exists
    /\ \E i \in 1..Len(pass.uninstallJob.conditions) :
          /\ pass.uninstallJob.conditions[i].type = "Complete"
          /\ pass.uninstallJob.conditions[i].status = "True"
          /\ \A j \in 1..(i - 1) : pass.uninstallJob.conditions[j].type # "Complete"

DeprovisionFinalizerGone(k) ==
    ~cds[k].exists \/ ~HasFinalizer(cds[k], FinalizerDeprovision)

\* C1: a lifecycle pass whose reads succeed issues the update that removes the
\* deprovision finalizer if and only if the CD it read has a deletion
\* timestamp and the finalizer and the uninstall job existed before the pass
\* with Complete=True; when that update succeeds the finalizer is gone, and a
\* pass that does not issue it leaves the CD's finalizers as they were (so
\* never while the job is absent, just created, or incomplete).
C1_FinalizerRemovedIffUninstallComplete ==
    (LifecyclePass /\ LifecycleReadsSucceeded) =>
        /\ IssuedLifecycle("Update", "ClusterDeployment", "removeFinalizer")
              <=> (PassCDDeletingWithFinalizer /\ UninstallJobWasComplete)
        /\ (IssuedLifecycle("Update", "ClusterDeployment", "removeFinalizer")
              /\ pass.err = NoErr) => DeprovisionFinalizerGone(pass.key)
        /\ (PassCDDeletingWithFinalizer
              /\ ~IssuedLifecycle("Update", "ClusterDeployment", "removeFinalizer"))
              => /\ cds[pass.key].exists
                 /\ cds[pass.key].finalizers = pass.cd.finalizers

\* A pass removed the finalizer of a deleting CD whose uninstall job was complete.
C1_Witness ==
    /\ LifecyclePass
    /\ PassCDDeletingWithFinalizer
    /\ UninstallJobWasComplete
    /\ pass.err = NoErr
    /\ IssuedLifecycle("Update", "ClusterDeployment", "removeFinalizer")
    /\ DeprovisionFinalizerGone(pass.key)

InstallJobKey(k) == ObjKey(k.namespace, InstallJobName(k.name))

\* C2: a lifecycle pass on a CD with a deletion timestamp and the deprovision
\* finalizer creates no install job and no install config-map: it issues no
\* such create, and the install job and config-map are after the pass what
\* they were before it, absent included.
C2_NoInstallWhileDeleting ==
    (LifecyclePass /\ PassCDDeletingWithFinalizer) =>
        /\ ~IssuedLifecycle("Create", "ConfigMap", InstallJobKey(pass.key))
        /\ ~IssuedLifecycle("Create", "Job", InstallJobKey(pass.key))
        /\ jobs[InstallJobKey(pass.key)] = pass.installJob
        /\ cfgMaps[InstallJobKey(pass.key)] = pass.cfgMap

\* A pass on a deleting CD whose install job and config-map are absent ran to
\* its end and created the uninstall job.
C2_Witness ==
    /\ LifecyclePass
    /\ PassCDDeletingWithFinalizer
    /\ ~pass.installJob.exists
    /\ ~pass.cfgMap.exists
    /\ pass.err = NoErr
    /\ Len(pass.calls) = 1
    /\ pass.calls[1].op = "Create"

-----------------------------------------------------------------------------
(* Gates                                                                   *)

\* The step is a reconcile pass on CD k that read the CD.
PassOn(k) ==
    /\ pass'.controller \in {"lifecycle", "sync"}
    /\ pass'.key = k
    /\ pass'.err.kind \notin {"GetCD", "GetError"}

\* The pass did nothing: no write, no external call, success.
PassDidNothing ==
    /\ Len(pass'.calls) = 0
    /\ pass'.err = NoErr
    /\ UNCHANGED <<cds, jobs, cfgMaps, syncSets, selectorSyncSets, cluster>>

DeletingWithoutDeprovision(cd) ==
    /\ cd.exists
    /\ cd.deletionTimestamp
    /\ ~HasFinalizer(cd, FinalizerDeprovision)

\* C3: a pass of either reconciler on a CD that has a deletion timestamp and
\* no deprovision finalizer issues no write and no external call, changes no
\* object on the platform or on the managed cluster, and returns success.
C3_DeletedWithoutFinalizerIsInvisible ==
    [][\A k \in CDKeys :
          (DeletingWithoutDeprovision(cds[k]) /\ PassOn(k)) => PassDidNothing]_vars

\* The sync reconciler ran on an installed CD with a deletion timestamp and no
\* deprovision finalizer while a SyncSet targets it.
C3_Witness ==
    /\ pass.controller = "sync"
    /\ DeletingWithoutDeprovision(cds[pass.key])
    /\ cds[pass.key].installed
    /\ \E key \in SeqRange(SyncSetKeys) : syncSets[key].exists
    /\ pass.err = NoErr

FailsSyncGates(cd) ==
    \/ ~cd.exists
    \/ cd.deletionTimestamp
    \/ ~cd.installed

\* C4: a sync pass on a CD that does not exist, has a deletion timestamp or is
\* not installed returns success and does no work: it lists and migrates no
\* bundle, changes no bundle finalizer, calls neither the Applier nor the
\* managed cluster, and does not write the CD status.
C4_SyncGatesReturnWithoutWork ==
    [][\A k \in CDKeys :
          (FailsSyncGates(cds[k]) /\ PassOn(k) /\ pass'.controller = "sync")
              => PassDidNothing]_vars

\* The sync reconciler ran on an existing CD that is not installed and not
\* deleting, while a SyncSet that has no cleanup finalizer yet targets it.
C4_Witness ==
    /\ pass.controller = "sync"
    /\ cds[pass.key].exists
    /\ ~cds[pass.key].deletionTimestamp
    /\ ~cds[pass.key].installed
    /\ \E key \in SeqRange(SyncSetKeys) :
          syncSets[key].exists /\ syncSets[key].finalizers = {}
    /\ pass.err = NoErr

-----------------------------------------------------------------------------
(* Sync engine: resources                                                  *)

\* The status the CD records for a SyncSet.
RecordedStatus(cd, name) == findSyncSetStatus(name, cd.syncSetStatus)

\* The pass of the step is a sync pass on CD k that issued the call.
IssuedBy(k, name, op, target) ==
    /\ pass'.controller = "sync"
    /\ pass'.key = k
    /\ \E i \in 1..Len(pass'.calls) :
          /\ pass'.calls[i].op = op
          /\ pass'.calls[i].bundleKind = "SyncSet"
          /\ pass'.calls[i].bundle = name
          /\ pass'.calls[i].target = target

IssuedOp(k, name, op) ==
    /\ pass'.controller = "sync"
    /\ pass'.key = k
    /\ \E i \in 1..Len(pass'.calls) :
          /\ pass'.calls[i].op = op
          /\ pass'.calls[i].bundleKind = "SyncSet"
          /\ pass'.calls[i].bundle = name

FailedOp(k, name, op) ==
    /\ pass'.controller = "sync"
    /\ pass'.key = k
    /\ \E i \in 1..Len(pass'.calls) :
          /\ pass'.calls[i].op = op
          /\ pass'.calls[i].bundleKind = "SyncSet"
          /\ pass'.calls[i].bundle = name
          /\ ~pass'.calls[i].ok

\* The pass of the step applied the resources of SyncSet key to CD k.
AppliedBundle(k, key) == IssuedOp(k, key.name, "Info")

\* The status entry records the identity the blob describes.
RecordsBlob(entry, raw) ==
    /\ entry.apiVersion = raw.info.apiVersion
    /\ entry.kind = raw.info.kind
    /\ entry.namespace = raw.info.namespace
    /\ entry.name = raw.info.name

HasCondition(entry, type, status) ==
    \E i \in 1..Len(entry.conditions) :
        /\ entry.conditions[i].type = type
        /\ entry.conditions[i].status = status

\* Same hash, no recorded failure, last successful apply at most 2 hours ago.
UpToDate(entry, raw, t) ==
    /\ entry.hash = resourceHash(raw)
    /\ ~HasCondition(entry, "ApplyFailure", "True")
    /\ \A i \in 1..Len(entry.conditions) :
          entry.conditions[i].type = "ApplySuccess"
              => t - entry.conditions[i].lastProbeTime <= reapplyInterval

ObjectOf(entry) ==
    ClusterKey(entry.apiVersion, entry.resource, entry.namespace, entry.name)

Declared(syncSet, entry) ==
    \E n \in 1..Len(syncSet.resources) : RecordsBlob(entry, syncSet.resources[n])

\* C5: in a sync pass that applies a bundle, a declared resource whose prior
\* status entry has the same hash, no ApplyFailure=True and an ApplySuccess
\* probe time at most 2 hours old is not applied, and the status recorded
\* after the pass holds that entry unchanged.
C5_UpToDateResourceSkippedAndKept ==
    [][\A k \in CDKeys, key \in SeqRange(SyncSetKeys) :
          AppliedBundle(k, key) =>
            \A n \in 1..Len(syncSets[key].resources) :
              \A j \in 1..Len(RecordedStatus(cds[k], key.name).resources) :
                LET raw == syncSets[key].resources[n]
                    entry == RecordedStatus(cds[k], key.name).resources[j]
                    after == RecordedStatus(cds'[k], key.name).resources
                IN  (RecordsBlob(entry, raw) /\ UpToDate(entry, raw, now))
                        => /\ ~IssuedBy(k, key.name, "Apply", raw)
                           /\ \E m \in 1..Len(after) : after[m] = entry]_vars

\* The SyncSet is applied, not cleaned up, in sync mode.
LiveInSyncMode(syncSet) ==
    /\ syncSet.exists
    /\ ~syncSet.deletionTimestamp
    /\ syncSet.resourceApplyMode = "sync"

\* C6: after a sync pass that applied a sync-mode bundle and returned no
\* error, every object recorded in the prior status that the bundle no longer
\* declares is gone from the managed cluster, or is still recorded so that a
\* later pass deletes it.
C6_SyncModeClusterMatchesDeclared ==
    [][\A k \in CDKeys, key \in SeqRange(SyncSetKeys) :
          (LiveInSyncMode(syncSets[key]) /\ AppliedBundle(k, key)
              /\ pass'.err = NoErr)
            => \A j \in 1..Len(RecordedStatus(cds[k], key.name).resources) :
                 LET entry == RecordedStatus(cds[k], key.name).resources[j]
                     after == RecordedStatus(cds'[k], key.name).resources
                 IN  ~Declared(syncSets[key], entry)
                       => \/ ObjectOf(entry) \notin cluster'[k]
                          \/ \E m \in 1..Len(after) :
                                ObjectOf(after[m]) = ObjectOf(entry)]_vars

\* C8: when the delete of a candidate fails in the deletion pass of a
\* sync-mode bundle, the status recorded after the pass keeps the candidate's
\* entry, with DeletionFailed=True and reason DeletionFailed.
C8_FailedDeleteKeepsCandidate ==
    [][\A k \in CDKeys, key \in SeqRange(SyncSetKeys) :
          (LiveInSyncMode(syncSets[key]) /\ AppliedBundle(k, key)
              /\ FailedOp(k, key.name, "Delete"))
            => \A j \in 1..Len(RecordedStatus(cds[k], key.name).resources) :
                 LET entry == RecordedStatus(cds[k], key.name).resources[j]
                     after == RecordedStatus(cds'[k], key.name).resources
                 IN  (\E i \in 1..Len(pass'.calls) :
                         /\ pass'.calls[i].op = "Delete"
                         /\ ~pass'.calls[i].ok
                         /\ pass'.calls[i].target = ObjectOf(entry))
                       => \E m \in 1..Len(after) :
                            /\ ObjectOf(after[m]) = ObjectOf(entry)
                            /\ \E c \in 1..Len(after[m].conditions) :
                                  /\ after[m].conditions[c].type = "DeletionFailed"
                                  /\ after[m].conditions[c].status = "True"
                                  /\ after[m].conditions[c].reason = "DeletionFailed"]_vars

\* C9: when Apply fails for a resource of a sync-mode bundle, the pass issues
\* no delete for the bundle, the status recorded after the pass keeps every
\* prior entry (an entry the bundle no longer declares unchanged), and the
\* reconcile returns the apply error of the bundle.
C9_ApplyErrorDefersDeletion ==
    [][\A k \in CDKeys, key \in SeqRange(SyncSetKeys) :
          (LiveInSyncMode(syncSets[key]) /\ FailedOp(k, key.name, "Apply"))
            => /\ ~IssuedOp(k, key.name, "Delete")
               /\ \A j \in 1..Len(RecordedStatus(cds[k], key.name).resources) :
                    LET entry == RecordedStatus(cds[k], key.name).resources[j]
                        after == RecordedStatus(cds'[k], key.name).resources
                    IN  /\ \E m \in 1..Len(after) :
                              ObjectOf(after[m]) = ObjectOf(entry)
                        /\ ~Declared(syncSets[key], entry)
                              => \E m \in 1..Len(after) : after[m] = entry
               /\ pass'.err.kind = "ApplyError"
               /\ pass'.err.bundle = key.name]_vars

\* An apply failed in a pass over a sync-mode bundle that no longer declares
\* a recorded resource: the resource is still recorded and still on the
\* managed cluster.
C9_Witness ==
    /\ pass.controller = "sync"
    /\ pass.err.kind = "ApplyError"
    /\ \E i \in 1..Len(pass.calls) : pass.calls[i].op = "Apply" /\ ~pass.calls[i].ok
    /\ \E key \in SeqRange(SyncSetKeys) :
          /\ LiveInSyncMode(syncSets[key])
          /\ \E j \in 1..Len(RecordedStatus(cds[pass.key], key.name).resources) :
                LET entry == RecordedStatus(cds[pass.key], key.name).resources[j]
                IN  /\ ~Declared(syncSets[key], entry)
                    /\ ObjectOf(entry) \in cluster[pass.key]

\* The SyncSet leaves deletions to its owner: ResourceApplyMode is upsert,
\* or empty.
InUpsertMode(syncSet) ==
    /\ syncSet.exists
    /\ syncSet.resourceApplyMode \in {"", "upsert"}

\* The pass cleans up after the deleted SyncSet, deleting what it recorded.
CleanupDeletes(syncSet) ==
    /\ syncSet.deletionTimestamp
    /\ HasFinalizer(syncSet, FinalizerSyncSetCleanup)
    /\ syncSet.resourceDeletionPolicy # "Orphan"

-----------------------------------------------------------------------------
(* Sync engine: conditions                                                 *)

\* The status entries of the resources and patches of a bundle status.
EntriesOf(status) ==
    {status.resources[i] : i \in 1..Len(status.resources)}
        \cup {status.patches[i] : i \in 1..Len(status.patches)}

\* Every SyncStatus entry a CD records, of SyncSets and SelectorSyncSets.
RecordedEntries(cd) ==
    UNION {EntriesOf(cd.syncSetStatus[i]) : i \in 1..Len(cd.syncSetStatus)}
        \cup UNION {EntriesOf(cd.selectorSyncSetStatus[i]) :
                        i \in 1..Len(cd.selectorSyncSetStatus)}

\* C10: no SyncStatus entry, of a resource or of a patch, recorded in any
\* bundle status of any CD has both ApplySuccess=True and ApplyFailure=True.
C10_SuccessAndFailureExclusive ==
    \A k \in CDKeys :
        cds[k].exists =>
            \A entry \in RecordedEntries(cds[k]) :
                ~(HasCondition(entry, "ApplySuccess", "True")
                    /\ HasCondition(entry, "ApplyFailure", "True"))

\* A resource and a patch of a SyncSet and a resource of a SelectorSyncSet
\* that had been applied with success later failed: the entries record
\* ApplyFailure=True next to ApplySuccess=False.
C10_Witness ==
    \E k \in CDKeys :
        /\ cds[k].exists
        /\ \E i \in 1..Len(cds[k].selectorSyncSetStatus) :
              \E r \in 1..Len(cds[k].selectorSyncSetStatus[i].resources) :
                    LET entry == cds[k].selectorSyncSetStatus[i].resources[r]
                    IN  /\ HasCondition(entry, "ApplyFailure", "True")
                        /\ HasCondition(entry, "ApplySuccess", "False")
        /\ \E i \in 1..Len(cds[k].syncSetStatus) :
              /\ \E r \in 1..Len(cds[k].syncSetStatus[i].resources) :
                    LET entry == cds[k].syncSetStatus[i].resources[r]
                    IN  /\ HasCondition(entry, "ApplyFailure", "True")
                        /\ HasCondition(entry, "ApplySuccess", "False")
              /\ \E p \in 1..Len(cds[k].syncSetStatus[i].patches) :
                    LET entry == cds[k].syncSetStatus[i].patches[p]
                    IN  /\ HasCondition(entry, "ApplyFailure", "True")
                        /\ HasCondition(entry, "ApplySuccess", "False")

-----------------------------------------------------------------------------
(* Sync engine: conditions after a successful apply                        *)

\* The status the CD records for a bundle of the kind.
RecordedFor(cd, bundleKind, name) ==
    findSyncSetStatus(name, StatusList(cd, ApplyStatusField(bundleKind)))

\* The entry is the one a call of the Applier is recorded in: a resource by
\* what Info reports for the blob, a patch by the identity the patch names.
EntryOfCall(entry, call) ==
    IF call.op = "Apply" THEN RecordsBlob(entry, call.target)
    ELSE SamePatch(entry, call.target)

EntriesOfCall(status, call) ==
    IF call.op = "Apply" THEN SeqRange(status.resources)
    ELSE SeqRange(status.patches)

\* The pass of the step is a sync pass on CD k whose status, where it
\* changed, reached the platform.
StatusRecordedBy(k) ==
    /\ pass'.controller = "sync"
    /\ pass'.key = k
    /\ pass'.err.kind # "UpdateError"

\* C11: after a sync pass in which Apply or Patch succeeded for an entry, the
\* status recorded for the bundle holds that entry with ApplySuccess=True and
\* with neither ApplyFailure=True nor DeletionFailed=True, whatever the
\* conditions of the entry were before the pass.
C11_SuccessfulApplyConditions ==
    [][\A k \in CDKeys :
         StatusRecordedBy(k) =>
           \A i \in 1..Len(pass'.calls) :
             LET call == pass'.calls[i]
                 status == RecordedFor(cds'[k], call.bundleKind, call.bundle)
             IN  (call.op \in {"Apply", "Patch"} /\ call.ok) =>
                   /\ \E entry \in EntriesOfCall(status, call) :
                         EntryOfCall(entry, call)
                   /\ \A entry \in EntriesOfCall(status, call) :
                         EntryOfCall(entry, call) =>
                           /\ HasCondition(entry, "ApplySuccess", "True")
                           /\ ~HasCondition(entry, "ApplyFailure", "True")
                           /\ ~HasCondition(entry, "DeletionFailed", "True")]_vars

\* A resource of the SyncSet, its patch and a resource of the SelectorSyncSet
\* whose last apply had failed were applied with success in the last pass.
C11_Witness ==
    /\ pass.controller = "sync"
    /\ pass.err = NoErr
    /\ \A op \in {"Apply", "Patch"} :
          \E i \in 1..Len(pass.calls) :
              /\ pass.calls[i].op = op
              /\ pass.calls[i].ok
    /\ \E i \in 1..Len(pass.calls) :
          /\ pass.calls[i].op = "Apply"
          /\ pass.calls[i].bundleKind = "SelectorSyncSet"
          /\ pass.calls[i].ok
    /\ \A entry \in RecordedEntries(cds[pass.key]) :
          /\ HasCondition(entry, "ApplySuccess", "True")
          /\ HasCondition(entry, "ApplyFailure", "False")

-----------------------------------------------------------------------------
(* Sync engine: a second pass without change                               *)

\* What the reconcilers read of the platform in the current state.
World ==
    [cds |-> cds, syncSets |-> syncSets,
     selectorSyncSets |-> selectorSyncSets, cluster |-> cluster]

\* Every resource and patch the bundle declares is recorded as applied with
\* success.
AllAppliedWithSuccess(bundle, status) ==
    /\ \A n \in 1..Len(bundle.resources) :
          \E entry \in SeqRange(status.resources) :
              /\ RecordsBlob(entry, bundle.resources[n])
              /\ HasCondition(entry, "ApplySuccess", "True")
    /\ \A n \in 1..Len(bundle.patches) :
          \E entry \in SeqRange(status.patches) :
              /\ SamePatch(entry, bundle.patches[n])
              /\ HasCondition(entry, "ApplySuccess", "True")

\* The last step was a sync pass on CD k that returned no error, and every
\* bundle of the CD has been applied with success.
SettledBySyncPass(k) ==
    /\ pass.controller = "sync"
    /\ pass.key = k
    /\ pass.err = NoErr
    /\ \A key \in SeqRange(getRelatedSyncSets(World, k)) :
          AllAppliedWithSuccess(syncSets[key],
                                RecordedFor(cds[k], "SyncSet", key.name))
    /\ \A key \in SeqRange(getRelatedSelectorSyncSets(World, k)) :
          AllAppliedWithSuccess(selectorSyncSets[key],
                                RecordedFor(cds[k], "SelectorSyncSet", key.name))

\* No recorded ApplySuccess probe is more than the reapply interval old at t.
NoEntryOlderThanInterval(cd, t) ==
    \A entry \in RecordedEntries(cd) :
        \A c \in 1..Len(entry.conditions) :
            entry.conditions[c].type = "ApplySuccess"
                => t - entry.conditions[c].lastProbeTime <= reapplyInterval

\* The calls hold no Apply, no Patch, no managed-cluster delete and no write
\* of the CD status.
Quiet(calls) ==
    \A i \in 1..Len(calls) :
        calls[i].op \notin {"Apply", "Patch", "Delete", "UpdateStatus"}

\* C12: after a sync pass on a CD that returned no error, with everything the
\* CD's bundles declare applied with success, a second pass on the same CD
\* with nothing changed in between, run while no recorded probe is more than
\* the reapply interval old, issues no Apply, no Patch, no managed-cluster
\* delete and no write of the CD status, and changes neither the CD nor the
\* managed cluster.
C12_SecondPassIsQuiet ==
    \A k \in CDKeys :
        SettledBySyncPass(k) =>
            \A t \in now..MaxTime, failing \in ConditionFailures :
                NoEntryOlderThanInterval(cds[k], t) =>
                    \E r \in {ReconcileSyncSet(World, k, failing, t)} :
                        /\ Quiet(r.calls)
                        /\ r.w.cds = cds
                        /\ r.w.cluster = cluster

\* A pass has applied a resource and a patch of the SyncSet and a resource of
\* the SelectorSyncSet; a second pass, the reapply interval later, probes the
\* resources again and applies nothing.
C12_Witness ==
    \E k \in CDKeys :
        /\ SettledBySyncPass(k)
        /\ Len(RecordedFor(cds[k], "SyncSet", "s1").resources) > 0
        /\ Len(RecordedFor(cds[k], "SyncSet", "s1").patches) > 0
        /\ Len(RecordedFor(cds[k], "SelectorSyncSet", "x1").resources) > 0
        /\ now + reapplyInterval <= MaxTime
        /\ NoEntryOlderThanInterval(cds[k], now + reapplyInterval)
        /\ \E r \in {ReconcileSyncSet(World, k, {}, now + reapplyInterval)} :
              /\ \E i \in 1..Len(r.calls) : r.calls[i].op = "Info"
              /\ Quiet(r.calls)

-----------------------------------------------------------------------------
(* Sync engine: bundle statuses are keyed by name                          *)

\* The indices of the entries of a status list that carry the name.
Named(statusList, name) ==
    {i \in 1..Len(statusList) : statusList[i].name = name}

UniqueNames(statusList) ==
    \A i, j \in 1..Len(statusList) :
        statusList[i].name = statusList[j].name => i = j

\* The bundle of the kind the platform stores under the key.
StoredBundle(bundleKind, key) ==
    IF bundleKind = "SyncSet" THEN syncSets[key] ELSE selectorSyncSets[key]

BundleKeys(bundleKind) ==
    IF bundleKind = "SyncSet" THEN SeqRange(SyncSetKeys)
    ELSE SeqRange(SelectorSyncSetKeys)

\* The bundle is deleting and still guarded by the cleanup finalizer.
AwaitsCleanup(bundle) ==
    /\ bundle.exists
    /\ bundle.deletionTimestamp
    /\ HasFinalizer(bundle, FinalizerSyncSetCleanup)

\* The pass of the step issued the call for the bundle.
IssuedFor(k, bundleKind, name, op) ==
    /\ pass'.controller = "sync"
    /\ pass'.key = k
    /\ \E i \in 1..Len(pass'.calls) :
          /\ pass'.calls[i].op = op
          /\ pass'.calls[i].bundleKind = bundleKind
          /\ pass'.calls[i].bundle = name

\* C13: in every state each of SyncSetStatus and SelectorSyncSetStatus of a
\* CD holds at most one entry per bundle name; after a pass that applied a
\* bundle the list of its kind holds exactly one entry with its name, and
\* after a pass that cleaned up a deleting bundle the list the cleanup prunes
\* holds no entry with its name.
C13_BundleStatusKeyedByName ==
    /\ [](\A k \in CDKeys :
            cds[k].exists =>
                /\ UniqueNames(cds[k].syncSetStatus)
                /\ UniqueNames(cds[k].selectorSyncSetStatus))
    /\ [][\A k \in CDKeys, bundleKind \in {"SyncSet", "SelectorSyncSet"} :
            \A key \in BundleKeys(bundleKind) :
              StatusRecordedBy(k) =>
                /\ IssuedFor(k, bundleKind, key.name, "Info") =>
                     Cardinality(Named(StatusList(cds'[k], ApplyStatusField(bundleKind)),
                                       key.name)) = 1
                /\ (AwaitsCleanup(StoredBundle(bundleKind, key))
                      /\ IssuedFor(k, bundleKind, key.name, "Update")) =>
                     Named(StatusList(cds'[k], CleanupStatusField(bundleKind)),
                           key.name) = {}]_vars

\* Both bundles were applied and recorded; the SyncSet was then deleted and
\* the last pass cleaned it up.
C13_Witness ==
    /\ pass.controller = "sync"
    /\ pass.err = NoErr
    /\ \E i \in 1..Len(pass.calls) :
          /\ pass.calls[i].op = "Update"
          /\ pass.calls[i].bundleKind = "SyncSet"
          /\ pass.calls[i].ok
    /\ \A key \in SeqRange(SyncSetKeys) : ~syncSets[key].exists
    /\ Named(cds[pass.key].syncSetStatus, "s1") = {}
    /\ Cardinality(Named(cds[pass.key].selectorSyncSetStatus, "x1")) = 1
    /\ \E obj \in cluster[pass.key] : obj.name = "b"

-----------------------------------------------------------------------------
(* Sync engine: the recorded hash                                          *)

\* The bytes a call hands to the Applier: the resource blob, or the body of
\* the patch.
BytesOfCall(call) ==
    IF call.op = "Apply" THEN call.target ELSE call.target.patch

\* The resource and patch entries of a bundle status, each with its list.
TaggedEntries(status) ==
    {<<"Apply", status.resources[i]>> : i \in 1..Len(status.resources)}
        \cup {<<"Patch", status.patches[i]>> : i \in 1..Len(status.patches)}

\* The pass of the step attempted an Apply (for a resource entry) or a Patch
\* (for a patch entry) for the entry of the bundle.
AttemptedFor(bundleKind, name, tagged) ==
    \E i \in 1..Len(pass'.calls) :
        /\ pass'.calls[i].op = tagged[1]
        /\ pass'.calls[i].bundleKind = bundleKind
        /\ pass'.calls[i].bundle = name
        /\ EntryOfCall(tagged[2], pass'.calls[i])

\* C14: a sync pass whose status reaches the platform records, for every
\* Apply or Patch it attempted, with success or not, an entry whose hash is
\* the hash of the bytes of that attempt; every other entry recorded after
\* the pass was recorded before it with the same hash.  So the hash of an
\* entry is always the hash of the bytes of the last attempt made for it.
C14_HashOfLastAttempt ==
    [][\A k \in CDKeys :
         StatusRecordedBy(k) =>
           /\ \A i \in 1..Len(pass'.calls) :
                LET call == pass'.calls[i]
                    status == RecordedFor(cds'[k], call.bundleKind, call.bundle)
                IN  call.op \in {"Apply", "Patch"} =>
                      /\ \E entry \in EntriesOfCall(status, call) :
                            EntryOfCall(entry, call)
                      /\ \A entry \in EntriesOfCall(status, call) :
                            EntryOfCall(entry, call) =>
                                entry.hash = resourceHash(BytesOfCall(call))
           /\ \A bundleKind \in {"SyncSet", "SelectorSyncSet"} :
                \A key \in BundleKeys(bundleKind) :
                  \A tagged \in TaggedEntries(RecordedFor(cds'[k], bundleKind, key.name)) :
                    ~AttemptedFor(bundleKind, key.name, tagged) =>
                      \E before \in TaggedEntries(RecordedFor(cds[k], bundleKind,
                                                              key.name)) :
                          /\ before[1] = tagged[1]
                          /\ SameResource(before[2], tagged[2])
                          /\ before[2].hash = tagged[2].hash]_vars

\* New bytes for the patch of the SyncSet failed in an earlier pass; the last
\* pass tried new bytes for its resource, which failed, and skipped the
\* resource of the SelectorSyncSet: the entries record the hash of the new
\* bytes next to ApplyFailure=True, the skipped entry the hash of its last
\* apply.
C14_Witness ==
    /\ pass.controller = "sync"
    /\ pass.err.kind = "ApplyError"
    /\ \E i \in 1..Len(pass.calls) :
          /\ pass.calls[i].op = "Apply"
          /\ pass.calls[i].bundleKind = "SyncSet"
          /\ ~pass.calls[i].ok
          /\ pass.calls[i].target = RawA2
    /\ \A i \in 1..Len(pass.calls) :
          pass.calls[i].bundleKind = "SelectorSyncSet" => pass.calls[i].op = "Info"
    /\ \E entry \in SeqRange(RecordedFor(cds[pass.key], "SyncSet", "s1").resources) :
          /\ entry.hash = resourceHash(RawA2)
          /\ HasCondition(entry, "ApplyFailure", "True")
    /\ \E entry \in SeqRange(RecordedFor(cds[pass.key], "SyncSet", "s1").patches) :
          /\ entry.hash = resourceHash(PatchP2.patch)
          /\ HasCondition(entry, "ApplyFailure", "True")
    /\ \E entry \in SeqRange(RecordedFor(cds[pass.key], "SelectorSyncSet",
                                         "x1").resources) :
          /\ entry.hash = resourceHash(RawB1)
          /\ HasCondition(entry, "ApplySuccess", "True")

-----------------------------------------------------------------------------
(* Sync engine: patch-type migration                                       *)

HasOldPatchType(bundle) ==
    \E j \in 1..Len(bundle.patches) : bundle.patches[j].patchType \in OldPatchTypes

\* The keys of the bundles of the kind a pass on CD k lists.
RelatedKeys(bundleKind, k) ==
    IF bundleKind = "SyncSet" THEN getRelatedSyncSets(World, k)
    ELSE getRelatedSelectorSyncSets(World, k)

StoredBundles(bundleKind) ==
    IF bundleKind = "SyncSet" THEN syncSets ELSE selectorSyncSets

\* The migration wrote the bundle.
MigrationWrote(m, name) ==
    \E i \in 1..Len(m.calls) : m.calls[i].bundle = name

\* C15: a migration pass over the bundles of a CD that meets no error writes
\* exactly the bundles that hold an old patch-type spelling and leaves every
\* other bundle as it is stored; a second migration pass over the bundles the
\* first one stored changes no patch type and issues no bundle update.
C15_MigrationIdempotent ==
    \A k \in CDKeys, bundleKind \in {"SyncSet", "SelectorSyncSet"} :
        cds[k].exists =>
            \E first \in {migratePatchTypes(RelatedKeys(bundleKind, k),
                                            StoredBundles(bundleKind),
                                            bundleKind, {})} :
            \E second \in {migratePatchTypes(RelatedKeys(bundleKind, k),
                                             first.stored, bundleKind, {})} :
                /\ \A key \in SeqRange(RelatedKeys(bundleKind, k)) :
                      /\ MigrationWrote(first, key.name)
                            <=> HasOldPatchType(StoredBundles(bundleKind)[key])
                      /\ ~HasOldPatchType(StoredBundles(bundleKind)[key])
                            => first.stored[key] = StoredBundles(bundleKind)[key]
                      /\ ~HasOldPatchType(first.stored[key])
                /\ second.calls = <<>>
                /\ second.stored = first.stored
                /\ second.items = first.items

\* The last pass migrated the SyncSet and the SelectorSyncSet, two patches
\* in one of them; both are stored in the new spellings, and a patch type
\* that is neither old nor new is stored as it was.
C15_Witness ==
    /\ pass.controller = "sync"
    /\ \A bundleKind \in {"SyncSet", "SelectorSyncSet"} :
          \E i \in 1..Len(pass.calls) :
              /\ pass.calls[i].op = "Update"
              /\ pass.calls[i].target = "migrate"
              /\ pass.calls[i].bundleKind = bundleKind
              /\ pass.calls[i].ok
    /\ \A key \in SeqRange(SyncSetKeys) :
          /\ syncSets[key].exists
          /\ Len(syncSets[key].patches) = 2
          /\ syncSets[key].patches[1].patchType = "custom"
          /\ syncSets[key].patches[2].patchType = "merge"
    /\ \A key \in SeqRange(SelectorSyncSetKeys) :
          /\ selectorSyncSets[key].exists
          /\ Len(selectorSyncSets[key].patches) = 1
          /\ selectorSyncSets[key].patches[1].patchType = "json"

-----------------------------------------------------------------------------
(* Lifecycle under fair scheduling.  The controller watches                *)
(* ClusterDeployments (part_000:72) and the Jobs they own (part_000:78-81),*)
(* so every change to either one enqueues a reconcile of the deployment,   *)
(* and the work queue runs every request it holds: a pass that would       *)
(* change something cannot stay pending forever.  No platform call fails,  *)
(* jobs are not removed under the controller, and a job that has reported  *)
(* Complete=True stays that way.                                           *)

JobCompleted(job) ==
    JobCondition("Complete", "True") \in SeqRange(job.conditions)

\* The job controller reports on a job that has not completed yet.
JobProgresses(jk, conditions) ==
    /\ jobs[jk].exists
    /\ ~JobCompleted(jobs[jk])
    /\ JobReports(jk, conditions)

FairLifecycleReconcile == \E k \in CDKeys : LifecycleReconcile(k, {})

LiveNext ==
    \/ FairLifecycleReconcile
    \/ \E k \in CDKeys, f \in {{}, {FinalizerOther}} : CreateCD(k, f)
    \/ \E k \in CDKeys : DeleteCD(k)
    \/ \E k \in CDKeys : RemoveOtherFinalizer(k)
    \/ \E jk \in JobKeys, c \in JobConditionLists : JobProgresses(jk, c)

LiveSpec == Init /\ [][LiveNext]_vars /\ WF_vars(FairLifecycleReconcile)

-----------------------------------------------------------------------------
(* C16: install happy path                                                 *)

Fresh(k) == cds[k].exists /\ ~cds[k].deletionTimestamp

\* The deployment left the install path: a delete was requested.
LeftInstallPath(k) == ~Fresh(k)

InstallArtifactsExist(k) ==
    /\ cfgMaps[InstallJobKey(k)].exists
    /\ jobs[InstallJobKey(k)].exists

\* C16: under fair scheduling of error-free lifecycle passes, a
\* ClusterDeployment without deletion timestamp eventually carries the
\* deprovision finalizer; one that carries it eventually has its
\* <cd>-install config-map and job; and once that job reports Complete=True
\* the stored deployment eventually has Status.Installed = true.  Each step
\* is released only when a delete of the deployment is requested meanwhile.
C16_InstallHappyPath ==
    \A k \in CDKeys :
        /\ Fresh(k) ~> (LeftInstallPath(k)
                          \/ HasFinalizer(cds[k], FinalizerDeprovision))
        /\ (Fresh(k) /\ HasFinalizer(cds[k], FinalizerDeprovision))
              ~> (LeftInstallPath(k) \/ InstallArtifactsExist(k))
        /\ (Fresh(k) /\ jobs[InstallJobKey(k)].exists
                     /\ JobCondition("Complete", "True")
                            \in SeqRange(jobs[InstallJobKey(k)].conditions))
              ~> (LeftInstallPath(k) \/ cds[k].installed)

\* A pass has just stored Installed = true for a deployment that was not
\* installed, on seeing its install job Complete=True.
C16_Witness ==
    \E k \in CDKeys :
        /\ pass.controller = "lifecycle" /\ pass.key = k
        /\ pass.cd.exists /\ ~pass.cd.deletionTimestamp /\ ~pass.cd.installed
        /\ pass.installJob.exists
        /\ JobCondition("Complete", "True") \in SeqRange(pass.installJob.conditions)
        /\ Fresh(k) /\ cds[k].installed
        /\ HasFinalizer(cds[k], FinalizerDeprovision)
        /\ InstallArtifactsExist(k)

-----------------------------------------------------------------------------
(* C17: deprovision                                                        *)

UninstallJobKey(k) == ObjKey(k.namespace, UninstallJobName(k.name))

AwaitsDeprovision(k) ==
    /\ cds[k].exists
    /\ cds[k].deletionTimestamp
    /\ HasFinalizer(cds[k], FinalizerDeprovision)

\* The platform removes a deleting object with its last finalizer; while
\* another controller's finalizer remains the object stays, released by
\* this controller.
Deprovisioned(k) ==
    \/ ~cds[k].exists
    \/ /\ cds[k].deletionTimestamp
       /\ ~HasFinalizer(cds[k], FinalizerDeprovision)
       /\ cds[k].finalizers # {}

\* C17: under fair scheduling of error-free lifecycle passes, a
\* ClusterDeployment with a deletion timestamp and the deprovision
\* finalizer eventually has its <cd>-uninstall job, and once that job
\* reports Complete=True the finalizer is eventually removed, so that the
\* deployment disappears (as soon as no other finalizer holds it).
C17_Deprovision ==
    \A k \in CDKeys :
        /\ AwaitsDeprovision(k) ~> jobs[UninstallJobKey(k)].exists
        /\ (AwaitsDeprovision(k)
              /\ jobs[UninstallJobKey(k)].exists
              /\ JobCondition("Complete", "True")
                    \in SeqRange(jobs[UninstallJobKey(k)].conditions))
              ~> Deprovisioned(k)

\* A pass on a deleting deployment whose uninstall job is Complete=True has
\* just removed the last finalizer: the deployment is gone.
C17_Witness ==
    \E k \in CDKeys :
        /\ pass.controller = "lifecycle" /\ pass.key = k
        /\ pass.cd.exists /\ pass.cd.deletionTimestamp
        /\ pass.cd.finalizers = {FinalizerDeprovision}
        /\ pass.uninstallJob.exists
        /\ JobCondition("Complete", "True") \in SeqRange(pass.uninstallJob.conditions)
        /\ pass.err = NoErr
        /\ ~cds[k].exists

-----------------------------------------------------------------------------
(* C18: drift reapply                                                      *)

\* The entry has the hash of the blob and an ApplySuccess condition probed
\* more than the reapply interval before t.
ProbeExpired(entry, raw, t) ==
    /\ entry.hash = resourceHash(raw)
    /\ FindSyncCondition(entry.conditions, "ApplySuccess") # 0
    /\ t - entry.conditions[FindSyncCondition(entry.conditions, "ApplySuccess")]
                .lastProbeTime > reapplyInterval

\* In the pass of the step, Apply failed for a resource declared before
\* position n of the SyncSet.
EarlierApplyFailed(k, key, n) ==
    \E m \in 1..(n - 1), i \in 1..Len(pass'.calls) :
        /\ pass'.calls[i].op = "Apply"
        /\ pass'.calls[i].bundleKind = "SyncSet"
        /\ pass'.calls[i].bundle = key.name
        /\ pass'.calls[i].target = syncSets[key].resources[m]
        /\ ~pass'.calls[i].ok

ApplySucceededFor(k, key, raw) ==
    \E i \in 1..Len(pass'.calls) :
        /\ pass'.calls[i].op = "Apply"
        /\ pass'.calls[i].bundleKind = "SyncSet"
        /\ pass'.calls[i].bundle = key.name
        /\ pass'.calls[i].target = raw
        /\ pass'.calls[i].ok

\* C18: in a sync pass that applies the resources of a bundle, a declared
\* resource whose prior status entry has the same hash and an ApplySuccess
\* probe time more than 2 hours old is passed to Apply, unless Apply failed
\* for an earlier resource of the bundle in that pass; when that Apply
\* succeeds and the status of the pass is recorded, the entry keeps its hash
\* and its ApplySuccess condition is True with the time of the pass as
\* LastProbeTime.
C18_DriftReapply ==
    [][\A k \in CDKeys, key \in SeqRange(SyncSetKeys) :
          AppliedBundle(k, key) =>
            \A n \in 1..Len(syncSets[key].resources) :
              \A j \in 1..Len(RecordedStatus(cds[k], key.name).resources) :
                LET raw == syncSets[key].resources[n]
                    entry == RecordedStatus(cds[k], key.name).resources[j]
                    after == RecordedStatus(cds'[k], key.name).resources
                IN  (/\ RecordsBlob(entry, raw)
                     /\ ProbeExpired(entry, raw, now)
                     /\ ~EarlierApplyFailed(k, key, n))
                      => /\ IssuedBy(k, key.name, "Apply", raw)
                         /\ (ApplySucceededFor(k, key, raw) /\ StatusRecordedBy(k))
                              => /\ \E m \in 1..Len(after) : RecordsBlob(after[m], raw)
                                 /\ \A m \in 1..Len(after) :
                                      RecordsBlob(after[m], raw) =>
                                        /\ after[m].hash = entry.hash
                                        /\ \E c \in SeqRange(after[m].conditions) :
                                              /\ c.type = "ApplySuccess"
                                              /\ c.status = "True"
                                              /\ c.lastProbeTime = now]_vars

\* A pass after the interval has re-applied resource a alone, with success,
\* and its entry carries the time of the pass; resource b of the same
\* bundle, probed within the interval, was skipped.
C18_Witness ==
    /\ pass.controller = "sync"
    /\ pass.err = NoErr
    /\ now > reapplyInterval
    /\ \E k \in CDKeys, key \in SeqRange(SyncSetKeys) :
          /\ syncSets[key].exists
          /\ \E i \in 1..Len(pass.calls) :
                /\ pass.calls[i].op = "Apply"
                /\ pass.calls[i].ok
                /\ pass.calls[i].target = RawA1
          /\ Len(pass.calls) > 0
          /\ \A i \in 1..Len(pass.calls) :
                pass.calls[i].op = "Apply" => pass.calls[i].target = RawA1
          /\ RawB1 \in SeqRange(syncSets[key].resources)
          /\ \E e \in SeqRange(RecordedStatus(cds[k], key.name).resources) :
                /\ RecordsBlob(e, RawA1)
                /\ e.hash = resourceHash(RawA1)
                /\ HasCondition(e, "ApplySuccess", "True")
                /\ \A c \in SeqRange(e.conditions) :
                      c.type = "ApplySuccess" => c.lastProbeTime = now
          /\ \E e \in SeqRange(RecordedStatus(cds[k], key.name).resources) :
                /\ RecordsBlob(e, RawB1)
                /\ \A c \in SeqRange(e.conditions) :
                      c.type = "ApplySuccess" => now - c.lastProbeTime <= reapplyInterval

-----------------------------------------------------------------------------
(* C19: cleanup of a deleting SelectorSyncSet                              *)

\* The pass of the step issued a delete of the object of the entry on the
\* managed cluster, on behalf of the bundle.
DeleteIssuedFor(k, bundleKind, name, entry) ==
    \E i \in 1..Len(pass'.calls) :
        /\ pass'.calls[i].op = "Delete"
        /\ pass'.calls[i].bundleKind = bundleKind
        /\ pass'.calls[i].bundle = name
        /\ pass'.calls[i].target = ObjectOf(entry)

\* C19: a sync pass that cleans up a SelectorSyncSet with a deletion
\* timestamp, the syncset-cleanup finalizer and a deletion policy other than
\* Orphan issues a delete for every resource the CD records for it in
\* Status.SelectorSyncSetStatus, drops that entry from
\* Status.SelectorSyncSetStatus, and removes the finalizer.
C19_SelectorSyncSetCleanup ==
    [][\A k \in CDKeys, key \in SeqRange(SelectorSyncSetKeys) :
          (/\ AwaitsCleanup(selectorSyncSets[key])
           /\ selectorSyncSets[key].resourceDeletionPolicy # "Orphan"
           /\ IssuedFor(k, "SelectorSyncSet", key.name, "Update")
           /\ StatusRecordedBy(k)
           /\ pass'.err = NoErr)
            => /\ \A entry \in SeqRange(findSyncSetStatus(key.name,
                                   cds[k].selectorSyncSetStatus).resources) :
                    DeleteIssuedFor(k, "SelectorSyncSet", key.name, entry)
               /\ Named(cds'[k].selectorSyncSetStatus, key.name) = {}
               /\ \/ ~selectorSyncSets'[key].exists
                  \/ ~HasFinalizer(selectorSyncSets'[key], FinalizerSyncSetCleanup)]_vars

-----------------------------------------------------------------------------
(* Fan-out: the watches on bundles (lines 108-121) map a changed bundle to *)
(* the reconcile requests of the ClusterDeployments it targets.            *)

\* One request per referenced name, whatever the namespace.
syncSetHandlerFuncAnyNamespace(syncSet, key) ==
    {ObjKey(namespace, name) :
        namespace \in {"acme", "dev"}, name \in syncSet.clusterDeploymentRefs}

\* syncSetHandlerFunc (lines 128-141): one request per name of
\* Spec.ClusterDeploymentRefs, in the namespace of the SyncSet.  The work
\* queue holds a key once, so the requests are a set.
syncSetHandlerFunc(syncSet, key) ==
    {ObjKey(key.namespace, name) : name \in syncSet.clusterDeploymentRefs}

\* selectorSyncSetHandlerFunc (lines 143-169): the CDs of all namespaces
\* whose labels the selector matches; nothing when List fails or the
\* selector does not convert.
selectorSyncSetHandlerFunc(w, selectorSyncSet, listFails) ==
    IF listFails THEN {}
    ELSE IF ~selectorSyncSet.selector.valid THEN {}
    ELSE {k \in DOMAIN w.cds :
            /\ w.cds[k].exists
            /\ LabelSelectorMatches(selectorSyncSet.selector, w.cds[k].labels)}

\* ClusterDeployments of two namespaces, two of them with the same name.
FanOutKeys == {ObjKey("acme", "c1"), ObjKey("acme", "c2"), ObjKey("dev", "c1")}
FanOutRefs == SUBSET {"c1", "c2"}
FanOutLabels == {{}, {"env=prod"}, {"env=prod", "tier=web"}}
FanOutSelectors ==
    {LabelSelector({}, TRUE), LabelSelector({"env=prod"}, TRUE),
     LabelSelector({"tier=web"}, TRUE), LabelSelector({"env=prod"}, FALSE)}

\* A user changes the references of a SyncSet; the watch (lines 108-111)
\* runs the handler on the changed object.
ChangeSyncSetRefs(key, refs) ==
    /\ syncSets[key].exists
    /\ ~syncSets[key].deletionTimestamp
    /\ syncSets[key].clusterDeploymentRefs # refs
    /\ syncSets' = [syncSets EXCEPT ![key].clusterDeploymentRefs = refs]
    /\ pass' = [controller |-> "fanout", bundleKind |-> "SyncSet",
                bundle |-> key, listFailed |-> FALSE,
                requests |-> syncSetHandlerFunc(syncSets'[key], key)]
    /\ UNCHANGED <<cds, jobs, cfgMaps, selectorSyncSets, cluster, now>>

\* A user changes the selector of a SelectorSyncSet; the watch (lines
\* 115-121) runs the handler, whose List of the CDs may fail.
ChangeSelector(key, selector, listFails) ==
    /\ selectorSyncSets[key].exists
    /\ ~selectorSyncSets[key].deletionTimestamp
    /\ selectorSyncSets[key].selector # selector
    /\ selectorSyncSets' = [selectorSyncSets EXCEPT ![key].selector = selector]
    /\ pass' = [controller |-> "fanout", bundleKind |-> "SelectorSyncSet",
                bundle |-> key, listFailed |-> listFails,
                requests |-> selectorSyncSetHandlerFunc(
                                [cds |-> cds], selectorSyncSets'[key], listFails)]
    /\ UNCHANGED <<cds, jobs, cfgMaps, syncSets, cluster, now>>

\* A user changes the labels of a ClusterDeployment.
RelabelCD(k, labels) ==
    /\ cds[k].exists
    /\ ~cds[k].deletionTimestamp
    /\ cds[k].labels # labels
    /\ cds' = [cds EXCEPT ![k].labels = labels]
    /\ pass' = NoPass
    /\ UNCHANGED <<jobs, cfgMaps, syncSets, selectorSyncSets, cluster, now>>

FanOutInit ==
    /\ cds \in [FanOutKeys -> {NoObj, InstalledCD}]
    /\ jobs = [jk \in JobKeys |-> NoObj]
    /\ cfgMaps = [ck \in CfgMapKeys |-> NoObj]
    /\ syncSets = [key \in SeqRange(SyncSetKeys) |->
            NewSyncSet({"c1"}, <<RawA1>>, <<>>, "upsert", "Delete")]
    /\ selectorSyncSets = [key \in SeqRange(SelectorSyncSetKeys) |->
            NewSelectorSyncSet(LabelSelector(CDLabels, TRUE), <<RawB1>>, <<>>,
                               "upsert", "Delete")]
    /\ cluster = [k \in FanOutKeys |-> {}]
    /\ now = 0
    /\ pass = NoPass

FanOutNext ==
    \/ \E key \in SeqRange(SyncSetKeys), refs \in FanOutRefs :
            ChangeSyncSetRefs(key, refs)
    \/ \E key \in SeqRange(SelectorSyncSetKeys), selector \in FanOutSelectors,
          listFails \in BOOLEAN : ChangeSelector(key, selector, listFails)
    \/ \E k \in FanOutKeys, labels \in FanOutLabels : RelabelCD(k, labels)
    \/ \E k \in FanOutKeys : SyncReconcile(k, {})

FanOutSpec == FanOutInit /\ [][FanOutNext]_vars

-----------------------------------------------------------------------------
(* One SyncSet that names two ClusterDeployments.  Each deployment is      *)
(* reconciled on its own key (syncset_controller.go:103, 109-111), and the *)
(* passes of the two keys interleave freely.                               *)

FleetKeys == {ObjKey("acme", "c1"), ObjKey("acme", "c2")}

FleetFailures ==
    {{}, {Fail("Apply", "a")}, {Fail("Delete", "a")}, {Fail("Update", "s1")}}

FleetInit ==
    /\ cds = [k \in FleetKeys |-> InstalledCD]
    /\ jobs = [jk \in JobKeys |-> NoObj]
    /\ cfgMaps = [ck \in CfgMapKeys |-> NoObj]
    /\ syncSets = [key \in SeqRange(SyncSetKeys) |->
            NewSyncSet({k.name : k \in FleetKeys}, <<RawA1>>, <<>>, "sync", "Delete")]
    /\ selectorSyncSets = [key \in SeqRange(SelectorSyncSetKeys) |-> NoObj]
    /\ cluster = [k \in FleetKeys |-> {}]
    /\ now = 0
    /\ pass = NoPass

FleetNext ==
    \/ \E k \in FleetKeys, failing \in FleetFailures : SyncReconcile(k, failing)
    \/ \E key \in SeqRange(SyncSetKeys), r \in SyncSetResourceLists : EditSyncSet(key, r)
    \/ \E key \in SeqRange(SyncSetKeys) : DeleteSyncSet(key)

FleetSpec == FleetInit /\ [][FleetNext]_vars

-----------------------------------------------------------------------------
(* C20: the finalizer guards the teardown on every target                  *)

\* The step removes the cleanup finalizer from the deleting SyncSet.
CleanupFinalizerRemoved(key) ==
    /\ AwaitsCleanup(syncSets[key])
    /\ \/ ~syncSets'[key].exists
       \/ ~HasFinalizer(syncSets'[key], FinalizerSyncSetCleanup)

\* C20: when the cleanup finalizer of a deleting SyncSet whose deletion
\* policy is not Orphan is removed, whichever ClusterDeployment's pass does
\* it, the teardown is over for every ClusterDeployment the SyncSet names:
\* the deletes were issued on each of their managed clusters and their
\* entries pruned, so none of them still records resources of the SyncSet.
C20_FinalizerGuardsEveryTarget ==
    [][\A key \in SeqRange(SyncSetKeys) :
          (/\ CleanupFinalizerRemoved(key)
           /\ syncSets[key].resourceDeletionPolicy # "Orphan")
            => \A k \in DOMAIN cds :
                 (cds[k].exists /\ k.name \in syncSets[key].clusterDeploymentRefs)
                   => RecordedStatus(cds'[k], key.name).resources = <<>>]_vars

-----------------------------------------------------------------------------
(* C21: deletion policy on cleanup                                         *)

\* The step's pass cleaned the deleting bundle up and returned no error.
CleanedUp(k, bundleKind, key) ==
    /\ AwaitsCleanup(StoredBundle(bundleKind, key))
    /\ IssuedFor(k, bundleKind, key.name, "Update")
    /\ StatusRecordedBy(k)
    /\ pass'.err = NoErr

StoredBundleAfter(bundleKind, key) ==
    IF bundleKind = "SyncSet" THEN syncSets'[key] ELSE selectorSyncSets'[key]

\* C21: a sync pass that cleans up a deleting bundle carrying the
\* syncset-cleanup finalizer drops the bundle's entry from the status list
\* the CD records it in and removes the finalizer; with
\* ResourceDeletionPolicy Orphan it issues no delete on the managed cluster
\* for the bundle, with any other policy it issues a delete for each
\* resource recorded for the bundle (a delete of an object that is not
\* there being no error).
C21_DeletionPolicyOnCleanup ==
    [][\A k \in CDKeys, bundleKind \in {"SyncSet", "SelectorSyncSet"} :
         \A key \in BundleKeys(bundleKind) :
           CleanedUp(k, bundleKind, key) =>
             /\ Named(StatusList(cds'[k], ApplyStatusField(bundleKind)), key.name) = {}
             /\ \/ ~StoredBundleAfter(bundleKind, key).exists
                \/ ~HasFinalizer(StoredBundleAfter(bundleKind, key),
                                 FinalizerSyncSetCleanup)
             /\ IF StoredBundle(bundleKind, key).resourceDeletionPolicy = "Orphan"
                THEN ~IssuedFor(k, bundleKind, key.name, "Delete")
                ELSE \A entry \in SeqRange(RecordedFor(cds[k], bundleKind,
                                                       key.name).resources) :
                        DeleteIssuedFor(k, bundleKind, key.name, entry)]_vars

-----------------------------------------------------------------------------
(* C22: an apply error does not stop the pass                              *)

FailedApplyOrPatch(call) == call.op \in {"Apply", "Patch"} /\ ~call.ok

\* The bundles of the kind that a pass on CD k lists, as stored before it.
ApplicableKeys(bundleKind, k) ==
    SeqRange(RelatedKeys(bundleKind, k))

\* C22: in a sync pass whose status reaches the platform, when Apply or
\* Patch fails for a bundle, every SyncSet and SelectorSyncSet applicable to
\* the CD is still processed, the status stored after the pass records the
\* failed entry with ApplyFailure=True, and the pass returns the error of
\* the first Apply or Patch that failed, not a later one and not success.
C22_ApplyErrorDoesNotStopPass ==
    [][\A k \in CDKeys :
         StatusRecordedBy(k) =>
           \A i \in 1..Len(pass'.calls) :
             LET call == pass'.calls[i]
                 status == RecordedFor(cds'[k], call.bundleKind, call.bundle)
             IN  FailedApplyOrPatch(call) =>
                   /\ \A bundleKind \in {"SyncSet", "SelectorSyncSet"} :
                        \A key \in ApplicableKeys(bundleKind, k) :
                            \/ IssuedFor(k, bundleKind, key.name, "Info")
                            \/ IssuedFor(k, bundleKind, key.name, "Update")
                   /\ \E entry \in EntriesOfCall(status, call) :
                        /\ EntryOfCall(entry, call)
                        /\ HasCondition(entry, "ApplyFailure", "True")
                   /\ pass'.err # NoErr
                   /\ (\A j \in 1..(i - 1) : ~FailedApplyOrPatch(pass'.calls[j]))
                        => /\ pass'.err.bundleKind = call.bundleKind
                           /\ pass'.err.bundle = call.bundle
                           /\ pass'.err.kind =
                                (IF call.op = "Apply" THEN "ApplyError"
                                 ELSE "PatchError")]_vars

\* Apply failed for the resource of the SyncSet and then for the resource
\* of the SelectorSyncSet; both failures are stored in the status of the CD
\* and the pass returned the error of the SyncSet.
C22_Witness ==
    /\ pass.controller = "sync"
    /\ pass.err # NoErr
    /\ pass.err.kind = "ApplyError"
    /\ pass.err.bundleKind = "SyncSet"
    /\ \E i, j \in 1..Len(pass.calls) :
          /\ i < j
          /\ FailedApplyOrPatch(pass.calls[i])
          /\ pass.calls[i].bundleKind = "SyncSet"
          /\ FailedApplyOrPatch(pass.calls[j])
          /\ pass.calls[j].bundleKind = "SelectorSyncSet"
    /\ pass.calls[Len(pass.calls)].op = "UpdateStatus"
    /\ pass.calls[Len(pass.calls)].ok
    /\ \A k \in CDKeys :
          /\ \E s \in SeqRange(cds[k].syncSetStatus) :
                \E e \in SeqRange(s.resources) : HasCondition(e, "ApplyFailure", "True")
          /\ \E s \in SeqRange(cds[k].selectorSyncSetStatus) :
                \E e \in SeqRange(s.resources) : HasCondition(e, "ApplyFailure", "True")

-----------------------------------------------------------------------------
(* C23: order of the calls of a pass                                       *)

\* A call of the loops over the bundles: to the Applier, to the managed
\* cluster, or the update of a bundle's cleanup finalizer.  The patch-type
\* migration of both kinds (lines 239-246) comes before the loops.
LoopCall(call) ==
    \/ call.op \in {"Info", "Apply", "Patch", "Delete"}
    \/ call.op = "Update" /\ call.target = "finalizer"

SameBundle(c1, c2) == c1.bundleKind = c2.bundleKind /\ c1.bundle = c2.bundle

\* The first position of the blob in the resources of the bundle.
PositionOf(resources, raw) ==
    IndexWhere({n \in DOMAIN resources : resources[n] = raw})

ResourcesOf(call) ==
    IF call.bundleKind = "SyncSet"
    THEN syncSets[ObjKey("acme", call.bundle)].resources
    ELSE selectorSyncSets[ObjKey("", call.bundle)].resources

\* C23: in one sync pass the Apply calls for the resources of a bundle come
\* in declaration order, every Patch call of a bundle comes after all Apply
\* calls and all deletes of that bundle, and every call the loops make on
\* behalf of a SyncSet (Applier, managed cluster, finalizer update) comes
\* before any such call on behalf of a SelectorSyncSet.
C23_CallOrder ==
    [][pass'.controller = "sync" =>
         \A i, j \in 1..Len(pass'.calls) :
           LET c1 == pass'.calls[i]
               c2 == pass'.calls[j]
           IN  i < j =>
                 /\ (c1.op = "Apply" /\ c2.op = "Apply" /\ SameBundle(c1, c2))
                      => PositionOf(ResourcesOf(c1), c1.target)
                            < PositionOf(ResourcesOf(c2), c2.target)
                 /\ (c1.op = "Patch" /\ SameBundle(c1, c2))
                      => c2.op \notin {"Info", "Apply", "Delete"}
                 /\ (LoopCall(c1) /\ LoopCall(c2)
                       /\ c1.bundleKind = "SelectorSyncSet")
                      => c2.bundleKind # "SyncSet"]_vars

\* One pass applied a then b for the SyncSet, then patched for it, and only
\* then applied and patched for the SelectorSyncSet.
C23_Witness ==
    /\ pass.controller = "sync"
    /\ \E i1, i2, i3, i4, i5 \in 1..Len(pass.calls) :
          /\ i1 < i2 /\ i2 < i3 /\ i3 < i4 /\ i4 < i5
          /\ pass.calls[i1].op = "Apply" /\ pass.calls[i1].target = RawA2
          /\ pass.calls[i1].bundleKind = "SyncSet"
          /\ pass.calls[i2].op = "Apply" /\ pass.calls[i2].target = RawB1
          /\ pass.calls[i2].bundleKind = "SyncSet"
          /\ pass.calls[i3].op = "Patch" /\ pass.calls[i3].bundleKind = "SyncSet"
          /\ pass.calls[i4].op = "Apply"
          /\ pass.calls[i4].bundleKind = "SelectorSyncSet"
          /\ pass.calls[i5].op = "Patch"
          /\ pass.calls[i5].bundleKind = "SelectorSyncSet"

-----------------------------------------------------------------------------
(* C24: the first failure ends the loop of the bundle                      *)

\* The first position of the patch in the patches of the bundle, as the
\* pass read them (after the migration of the patch types).
PatchPositionOf(call) ==
    LET patches == migratePatches(
                      IF call.bundleKind = "SyncSet"
                      THEN syncSets[ObjKey("acme", call.bundle)].patches
                      ELSE selectorSyncSets[ObjKey("", call.bundle)].patches)
    IN  IndexWhere({n \in DOMAIN patches : patches[n] = call.target})

\* C24: in one sync pass, when Apply fails for the resource at some position
\* of a bundle, no Apply is invoked for a resource at a later position of
\* that bundle and no Patch of that bundle is invoked; when Patch fails for
\* a patch of a bundle, no Patch is invoked for a later patch of that bundle.
C24_FirstFailureEndsBundleLoop ==
    [][pass'.controller = "sync" =>
         \A i, j \in 1..Len(pass'.calls) :
           LET c1 == pass'.calls[i]
               c2 == pass'.calls[j]
           IN  (SameBundle(c1, c2) /\ ~c1.ok) =>
                 /\ (c1.op = "Apply" /\ c2.op = "Apply")
                      => PositionOf(ResourcesOf(c2), c2.target)
                            <= PositionOf(ResourcesOf(c1), c1.target)
                 /\ c1.op = "Apply" => c2.op # "Patch"
                 /\ (c1.op = "Patch" /\ c2.op = "Patch")
                      => PatchPositionOf(c2) <= PatchPositionOf(c1)]_vars

\* Apply failed for the first resource of a SyncSet that declares a second
\* resource, never applied, and patches: the pass made no other Apply and no
\* Patch for the SyncSet, and went on to the SelectorSyncSet.
C24_Witness ==
    /\ pass.controller = "sync"
    /\ \A key \in SeqRange(SyncSetKeys) :
          /\ syncSets[key].exists
          /\ Len(syncSets[key].resources) = 2
          /\ Len(syncSets[key].patches) = 2
          /\ \A k \in CDKeys :
                \A e \in SeqRange(RecordedStatus(cds[k], key.name).resources) :
                    ~RecordsBlob(e, syncSets[key].resources[2])
          /\ \E i \in 1..Len(pass.calls) :
                /\ pass.calls[i].op = "Apply"
                /\ ~pass.calls[i].ok
                /\ pass.calls[i].bundleKind = "SyncSet"
                /\ pass.calls[i].target = syncSets[key].resources[1]
                /\ \A j \in 1..Len(pass.calls) :
                      (j # i /\ pass.calls[j].bundleKind = "SyncSet")
                          => pass.calls[j].op \notin {"Apply", "Patch"}
    /\ \E j \in 1..Len(pass.calls) :
          /\ pass.calls[j].bundleKind = "SelectorSyncSet"
          /\ pass.calls[j].op = "Apply"

-----------------------------------------------------------------------------
(* C25: a failed Info probe                                                *)

\* C25: in a sync pass whose status reaches the platform, when the Info
\* probe fails for a resource of a bundle, no Apply, no delete and no Patch
\* is issued for that bundle, the Resources list the CD records for the
\* bundle is left as it was, the bundle's status carries UnknownObject=True,
\* and the pass returns an error (the probe's, when no bundle failed
\* before); when all probes of a bundle succeed its status does not carry
\* UnknownObject=True.
C25_FailedInfoProbe ==
    [][\A k \in CDKeys :
         StatusRecordedBy(k) =>
           \A i \in 1..Len(pass'.calls) :
             LET call == pass'.calls[i]
                 before == RecordedFor(cds[k], call.bundleKind, call.bundle)
                 after == RecordedFor(cds'[k], call.bundleKind, call.bundle)
                 probeFailed == \E j \in 1..Len(pass'.calls) :
                                    /\ pass'.calls[j].op = "Info"
                                    /\ SameBundle(pass'.calls[j], call)
                                    /\ ~pass'.calls[j].ok
             IN  call.op = "Info" =>
                   IF probeFailed
                   THEN /\ \A j \in 1..Len(pass'.calls) :
                              SameBundle(pass'.calls[j], call) =>
                                pass'.calls[j].op \notin {"Apply", "Delete", "Patch"}
                        /\ after.resources = before.resources
                        /\ HasCondition(after, "UnknownObject", "True")
                        /\ pass'.err # NoErr
                        /\ (\A j \in 1..(i - 1) : pass'.calls[j].ok)
                              => (~call.ok =>
                                    /\ pass'.err.kind = "InfoError"
                                    /\ pass'.err.bundleKind = call.bundleKind
                                    /\ pass'.err.bundle = call.bundle)
                   ELSE ~HasCondition(after, "UnknownObject", "True")]_vars

\* The probe of the second resource of the SyncSet failed after the first
\* one succeeded: the Resources recorded from an earlier pass are kept,
\* UnknownObject=True is stored, and nothing was applied, deleted or patched
\* for the SyncSet.
C25_Witness ==
    /\ pass.controller = "sync"
    /\ pass.err # NoErr
    /\ pass.err.kind = "InfoError"
    /\ \E i, j \in 1..Len(pass.calls) :
          /\ i < j
          /\ pass.calls[i].op = "Info" /\ pass.calls[i].ok
          /\ pass.calls[i].bundleKind = "SyncSet"
          /\ pass.calls[j].op = "Info" /\ ~pass.calls[j].ok
          /\ pass.calls[j].bundleKind = "SyncSet"
    /\ \A i \in 1..Len(pass.calls) :
          pass.calls[i].bundleKind = "SyncSet"
              => pass.calls[i].op \notin {"Apply", "Delete", "Patch"}
    /\ \A k \in CDKeys, key \in SeqRange(SyncSetKeys) :
          /\ Len(RecordedStatus(cds[k], key.name).resources) > 0
          /\ HasCondition(RecordedStatus(cds[k], key.name), "UnknownObject", "True")

-----------------------------------------------------------------------------
(* C26: patches applied once                                               *)

\* The pass of the step went through the patches of the live SyncSet.
PatchedBundle(k, key) ==
    /\ pass'.controller = "sync"
    /\ pass'.key = k
    /\ syncSets[key].exists
    /\ ~syncSets[key].deletionTimestamp
    /\ HasFinalizer(syncSets[key], FinalizerSyncSetCleanup)

\* The prior entry of the patch: same name, namespace and kind, the hash of
\* the patch body, and no ApplyFailure=True.
PatchUpToDate(entry, ssPatch) ==
    /\ entry.name = ssPatch.name
    /\ entry.namespace = ssPatch.namespace
    /\ entry.kind = ssPatch.kind
    /\ entry.hash = resourceHash(ssPatch.patch)
    /\ ~HasCondition(entry, "ApplyFailure", "True")

PatchIssued(key, ssPatch) ==
    \E i \in 1..Len(pass'.calls) :
        /\ pass'.calls[i].op = "Patch"
        /\ pass'.calls[i].bundleKind = "SyncSet"
        /\ pass'.calls[i].bundle = key.name
        /\ pass'.calls[i].target = ssPatch

\* C26: a patch whose prior entry has its hash and no ApplyFailure=True is
\* not passed to Patch when its apply mode is once, however old the probe
\* time of the entry is; with any other apply mode it is passed to Patch
\* exactly when the entry has an ApplySuccess condition probed more than 2
\* hours ago.
C26_PatchAppliedOnce ==
    [][\A k \in CDKeys, key \in SeqRange(SyncSetKeys) :
          PatchedBundle(k, key) =>
            \A n \in 1..Len(syncSets[key].patches) :
              \A entry \in SeqRange(RecordedStatus(cds[k], key.name).patches) :
                LET ssPatch == migratePatches(syncSets[key].patches)[n]
                    si == FindSyncCondition(entry.conditions, "ApplySuccess")
                IN  PatchUpToDate(entry, ssPatch) =>
                      IF ssPatch.applyMode = "ApplyOnce"
                      THEN ~PatchIssued(key, ssPatch)
                      ELSE PatchIssued(key, ssPatch)
                             <=> (si # 0 /\ now - entry.conditions[si].lastProbeTime
                                               > reapplyInterval)]_vars

\* A pass more than the interval after the patch was applied with success
\* found it unchanged in mode once and issued no Patch.
C26_Witness ==
    /\ pass.controller = "sync"
    /\ pass.err = NoErr
    /\ \A i \in 1..Len(pass.calls) : pass.calls[i].op # "Patch"
    /\ \A k \in CDKeys, key \in SeqRange(SyncSetKeys) :
          /\ syncSets[key].exists
          /\ HasFinalizer(syncSets[key], FinalizerSyncSetCleanup)
          /\ syncSets[key].patches = <<PatchOnce>>
          /\ \E entry \in SeqRange(RecordedStatus(cds[k], key.name).patches) :
                /\ PatchUpToDate(entry, PatchOnce)
                /\ \E c \in SeqRange(entry.conditions) :
                      /\ c.type = "ApplySuccess"
                      /\ c.status = "True"
                      /\ now - c.lastProbeTime > reapplyInterval

-----------------------------------------------------------------------------
(* C27: the finalizer comes before the install artefacts                   *)

\* The step creates the install job or the install config-map of CD k.
InstallArtifactCreated(k) ==
    \/ ~jobs[InstallJobKey(k)].exists /\ jobs'[InstallJobKey(k)].exists
    \/ ~cfgMaps[InstallJobKey(k)].exists /\ cfgMaps'[InstallJobKey(k)].exists

\* C27: a lifecycle pass that reads a CD without deletion timestamp and
\* without the deprovision finalizer makes one write, the update of the CD
\* that adds the finalizer: it creates no config-map and no job and changes
\* no status; and whenever an install job or install config-map is created,
\* the CD it is created for carries the finalizer already.
C27_FinalizerBeforeArtifacts ==
    [][\A k \in CDKeys :
         /\ (/\ pass'.controller = "lifecycle"
             /\ pass'.key = k
             /\ pass'.err.kind # "GetCD"
             /\ cds[k].exists
             /\ ~cds[k].deletionTimestamp
             /\ ~HasFinalizer(cds[k], FinalizerDeprovision))
              => /\ pass'.calls = <<Call("Update", "ClusterDeployment", "addFinalizer")>>
                 /\ UNCHANGED <<jobs, cfgMaps>>
                 /\ cds'[k] = IF pass'.err = NoErr
                              THEN AddFinalizer(cds[k], FinalizerDeprovision)
                              ELSE cds[k]
         /\ InstallArtifactCreated(k)
              => /\ pass'.controller = "lifecycle"
                 /\ cds[k].exists
                 /\ HasFinalizer(cds[k], FinalizerDeprovision)]_vars

\* A pass has added the finalizer to a new CD and written nothing else: the
\* CD is not installed and has neither install job nor config-map.
C27_Witness ==
    \E k \in CDKeys :
        /\ pass.controller = "lifecycle" /\ pass.key = k
        /\ pass.err = NoErr
        /\ pass.cd.exists /\ ~pass.cd.deletionTimestamp
        /\ ~HasFinalizer(pass.cd, FinalizerDeprovision)
        /\ cds[k].exists
        /\ HasFinalizer(cds[k], FinalizerDeprovision)
        /\ ~cds[k].installed
        /\ ~jobs[InstallJobKey(k)].exists
        /\ ~cfgMaps[InstallJobKey(k)].exists

-----------------------------------------------------------------------------
(* C28: Status.Installed follows the install job                           *)

\* The last pass was a lifecycle pass that read a CD without deletion
\* timestamp carrying the finalizer, and none of its reads or creates failed.
InstallPass ==
    /\ pass.controller = "lifecycle"
    /\ pass.cd.exists
    /\ ~pass.cd.deletionTimestamp
    /\ HasFinalizer(pass.cd, FinalizerDeprovision)
    /\ pass.err.kind \notin {"GetCD", "GetCfgMap", "CreateCfgMap", "GetJob", "CreateJob"}

\* What the pass computes for Status.Installed from what it read.
InstalledAsComputed ==
    IF pass.installJob.exists
    THEN JobCondition("Complete", "True") \in SeqRange(pass.installJob.conditions)
    ELSE pass.cd.installed

\* C28: in a lifecycle pass on a CD without deletion timestamp that carries
\* the finalizer, Status.Installed becomes true exactly when the install job
\* exists with a Complete condition of status True, and false when the job
\* exists without one; when the job is absent it is created and
\* Status.Installed stays as read; and the CD is written back exactly when
\* the resulting status differs from the one read.
C28_InstalledFollowsJob ==
    InstallPass =>
        /\ IssuedLifecycle("Update", "ClusterDeployment", "status")
              <=> InstalledAsComputed # pass.cd.installed
        /\ IssuedLifecycle("Create", "Job", InstallJobKey(pass.key))
              <=> ~pass.installJob.exists
        /\ pass.err = NoErr =>
              /\ cds[pass.key].installed = InstalledAsComputed
              /\ jobs[InstallJobKey(pass.key)].exists
              /\ pass.installJob.exists
                    => jobs[InstallJobKey(pass.key)] = pass.installJob
              /\ cds[pass.key].finalizers = pass.cd.finalizers
        /\ pass.err # NoErr => cds[pass.key] = pass.cd

\* A pass found the install job with Complete=Unknown on a CD that is not
\* installed: it wrote nothing and the CD stays not installed.
C28_Witness ==
    /\ InstallPass
    /\ pass.err = NoErr
    /\ pass.installJob.exists
    /\ JobCondition("Complete", "Unknown") \in SeqRange(pass.installJob.conditions)
    /\ pass.cfgMap.exists
    /\ ~pass.cd.installed
    /\ pass.calls = <<>>
    /\ ~cds[pass.key].installed

-----------------------------------------------------------------------------
(* C29: how the status of a CD is written                                  *)

\* The step changes the stored status of CD k.
StatusWritten(k) ==
    /\ cds[k].exists
    /\ cds'[k].exists
    /\ ~StatusEqual(cds'[k], cds[k])

\* C29: whenever a reconciler changes the stored status of a CD (Installed,
\* SyncSetStatus, SelectorSyncSetStatus), the write is a status-subresource
\* update and the labels and finalizers of the CD stay as they are.
C29_StatusWritesUseSubresource ==
    [][\A k \in CDKeys :
         StatusWritten(k) =>
           /\ pass'.controller \in {"lifecycle", "sync"}
           /\ \E i \in 1..Len(pass'.calls) : pass'.calls[i].op = "UpdateStatus"
           /\ cds'[k].labels = cds[k].labels
           /\ cds'[k].finalizers = cds[k].finalizers]_vars

-----------------------------------------------------------------------------
(* C30: a repeated failure does not rewrite the status                     *)

\* The last step was a sync pass on CD k that returned the error of a
\* failed Apply, after storing the status it computed.
FailedBySyncPass(k) ==
    /\ pass.controller = "sync"
    /\ pass.key = k
    /\ pass.err # NoErr
    /\ pass.err.kind = "ApplyError"

\* The Apply calls that failed in the last pass fail again.
SameFailures ==
    {Fail("Apply", pass.calls[i].target.info.name) :
        i \in {n \in 1..Len(pass.calls) :
                  pass.calls[n].op = "Apply" /\ ~pass.calls[n].ok}}

\* C30: after a sync pass in which Apply failed, a second pass on the same
\* CD in which the same Apply fails again, with nothing changed in between
\* and no recorded probe older than the reapply interval, computes the
\* status the first pass left, issues no write of the CD status and returns
\* the same error; every ApplyFailure=True condition recorded carries the
\* message "Apply failed".
C30_RepeatedFailureIsStable ==
    \A k \in CDKeys :
        FailedBySyncPass(k) =>
            /\ \A entry \in RecordedEntries(cds[k]) :
                 \A c \in SeqRange(entry.conditions) :
                    (c.type = "ApplyFailure" /\ c.status = "True")
                        => c.message = "Apply failed"
            /\ \A t \in now..MaxTime :
                 NoEntryOlderThanInterval(cds[k], t) =>
                    \E r \in {ReconcileSyncSet(World, k, SameFailures, t)} :
                        /\ r.err = pass.err
                        /\ r.w.cds = cds
                        /\ \A i \in 1..Len(r.calls) : r.calls[i].op # "UpdateStatus"
                        /\ \E i \in 1..Len(r.calls) :
                              r.calls[i].op = "Apply" /\ ~r.calls[i].ok

\* Apply has failed for a resource that an earlier pass had applied with
\* success under other bytes; the clock can still advance within the
\* interval before the second pass.
C30_Witness ==
    /\ now < MaxTime
    /\ \E k \in CDKeys :
          /\ FailedBySyncPass(k)
          /\ NoEntryOlderThanInterval(cds[k], now + 1)
          /\ pass.calls[Len(pass.calls)].op = "UpdateStatus"
          /\ \E entry \in RecordedEntries(cds[k]) :
                /\ HasCondition(entry, "ApplyFailure", "True")
                /\ HasCondition(entry, "ApplySuccess", "False")

-----------------------------------------------------------------------------
(* C31: fan-out agrees with fan-in                                         *)

\* The bundles a sync reconcile of CD k collects, by kind.
CollectedBy(k, bundleKind) ==
    IF bundleKind = "SyncSet"
    THEN SeqRange(getRelatedSyncSets(World, k))
    ELSE SeqRange(getRelatedSelectorSyncSets(World, k))

\* C31: when a bundle has changed and the handler's List did not fail, the
\* requests the handler emits hold the key of an existing CD exactly when a
\* sync reconcile of that CD collects the bundle; when List fails or the
\* selector is malformed, the handler emits no request.
C31_FanOutAgreesWithFanIn ==
    pass.controller = "fanout" =>
        /\ pass.listFailed => pass.requests = {}
        /\ (pass.bundleKind = "SelectorSyncSet"
              /\ ~selectorSyncSets[pass.bundle].selector.valid)
                => pass.requests = {}
        /\ ~pass.listFailed =>
              \A k \in DOMAIN cds :
                  cds[k].exists =>
                      (k \in pass.requests
                          <=> pass.bundle \in CollectedBy(k, pass.bundleKind))

\* A changed bundle has enqueued one existing CD and left out another.
C31_Witness ==
    /\ pass.controller = "fanout"
    /\ \E k1, k2 \in DOMAIN cds :
          /\ cds[k1].exists
          /\ cds[k2].exists
          /\ k1 \in pass.requests
          /\ k2 \notin pass.requests
          /\ k1.name = k2.name

-----------------------------------------------------------------------------
(* C32: the cleanup finalizer precedes the first side effect of a bundle   *)

\* The stored bundle a call of a sync pass was made on behalf of.
BundleOf(call) ==
    StoredBundle(call.bundleKind,
                 CHOOSE key \in BundleKeys(call.bundleKind) : key.name = call.bundle)

\* The calls the pass that is being taken makes on behalf of the bundle.
CallsAfterFor(bundleKind, name) ==
    {pass'.calls[i] : i \in {n \in 1..Len(pass'.calls) :
        /\ pass'.calls[n].op \in {"Info", "Apply", "Patch", "Delete", "Update"}
        /\ pass'.calls[n].bundleKind = bundleKind
        /\ pass'.calls[n].bundle = name}}

\* C32: a sync pass issues Apply and Patch only on behalf of bundles that,
\* when the pass starts, have no deletion timestamp and carry the
\* syncset-cleanup finalizer.  On behalf of a bundle that lacks the
\* finalizer the pass makes no call but updates of the bundle; on behalf of
\* a deleting bundle that carries it, no call but deletes on the managed
\* cluster and updates of the bundle.
C32_FinalizerBeforeSideEffects ==
    [][pass'.controller = "sync" =>
        \A bundleKind \in {"SyncSet", "SelectorSyncSet"} :
            \A key \in BundleKeys(bundleKind) :
                LET bundle == StoredBundle(bundleKind, key)
                    calls == CallsAfterFor(bundleKind, key.name)
                IN  /\ (\E call \in calls : call.op \in {"Apply", "Patch"})
                        => /\ bundle.exists
                           /\ ~bundle.deletionTimestamp
                           /\ FinalizerSyncSetCleanup \in bundle.finalizers
                    /\ (bundle.exists /\ FinalizerSyncSetCleanup \notin bundle.finalizers)
                        => \A call \in calls : call.op = "Update"
                    /\ (bundle.exists /\ bundle.deletionTimestamp
                            /\ FinalizerSyncSetCleanup \in bundle.finalizers)
                        => \A call \in calls : call.op \in {"Delete", "Update"}
    ]_vars

\* A pass has added the cleanup finalizer to a bundle while applying the
\* resources of the other bundle.
C32_Witness ==
    /\ pass.controller = "sync"
    /\ \E i, j \in 1..Len(pass.calls) :
          /\ pass.calls[i].op = "Update"
          /\ pass.calls[i].target = "finalizer"
          /\ pass.calls[i].ok
          /\ BundleOf(pass.calls[i]).exists
          /\ FinalizerSyncSetCleanup \in BundleOf(pass.calls[i]).finalizers
          /\ pass.calls[j].op = "Apply"
          /\ pass.calls[j].bundleKind # pass.calls[i].bundleKind

-----------------------------------------------------------------------------
(* C33: Status.Installed does not go back to false                         *)

\* C33: a lifecycle pass on a CD whose stored Status.Installed is true
\* leaves it true, whatever the state of the install job.
C33_InstalledIsMonotonic ==
    [][\A k \in CDKeys :
          (/\ pass'.controller = "lifecycle"
           /\ pass'.key = k
           /\ cds[k].exists
           /\ cds[k].installed
           /\ cds'[k].exists)
              => cds'[k].installed
    ]_vars

-----------------------------------------------------------------------------
(* C34: upsert mode keeps the entries of declared resources                *)

\* C34: in upsert mode, a sync pass over a SyncSet keeps in the Resources
\* status list of the SyncSet every entry recorded with ApplySuccess=True
\* whose resource the SyncSet still declares, also when Apply fails for
\* another resource of the SyncSet in that pass.
C34_UpsertKeepsDeclaredEntries ==
    [][\A k \in CDKeys : \A key \in SeqRange(SyncSetKeys) :
          (/\ pass'.controller = "sync"
           /\ pass'.key = k
           /\ syncSets[key].exists
           /\ ~syncSets[key].deletionTimestamp
           /\ isUpsert(syncSets[key].resourceApplyMode))
              => \A entry \in SeqRange(RecordedStatus(cds[k], key.name).resources) :
                    (/\ HasCondition(entry, "ApplySuccess", "True")
                     /\ \E raw \in SeqRange(syncSets[key].resources) :
                            SameResource(entry, raw.info))
                        => \E kept \in SeqRange(RecordedStatus(cds'[k], key.name).resources) :
                              SameResource(kept, entry)
    ]_vars

-----------------------------------------------------------------------------
(* C35: the Patches status list follows the declared patches               *)

\* C35: after a sync pass that returned no error, the Patches status list
\* recorded for a SyncSet the pass processed holds entries (by name,
\* namespace and kind) only for patches the SyncSet declares.
C35_PatchStatusFollowsSpec ==
    \A k \in CDKeys : \A key \in SeqRange(SyncSetKeys) :
        (/\ pass.controller = "sync"
         /\ pass.key = k
         /\ pass.err = NoErr
         /\ syncSets[key].exists
         /\ ~syncSets[key].deletionTimestamp
         /\ FinalizerSyncSetCleanup \in syncSets[key].finalizers)
            => \A entry \in SeqRange(RecordedStatus(cds[k], key.name).patches) :
                  \E ssPatch \in SeqRange(syncSets[key].patches) :
                      SamePatch(entry, ssPatch)

-----------------------------------------------------------------------------
(* C36: the status lists name only bundles that target the CD              *)

\* C36: after a sync pass on a CD that returned no error, every entry of
\* Status.SyncSetStatus names a SyncSet that exists and lists the CD in
\* ClusterDeploymentRefs, and every entry of Status.SelectorSyncSetStatus
\* names a SelectorSyncSet whose selector matches the labels of the CD.
C36_StatusNamesOnlyTargetingBundles ==
    \A k \in DOMAIN cds :
        (/\ pass.controller = "sync"
         /\ pass.key = k
         /\ pass.err = NoErr
         /\ cds[k].exists)
            => /\ \A entry \in SeqRange(cds[k].syncSetStatus) :
                    \E key \in CollectedBy(k, "SyncSet") : key.name = entry.name
               /\ \A entry \in SeqRange(cds[k].selectorSyncSetStatus) :
                    \E key \in CollectedBy(k, "SelectorSyncSet") :
                        key.name = entry.name

====
